---- MODULE Spec2Model ----
(***************************************************************************)
(* Media-track analysis core of stremio-web-development.                   *)
(*                                                                         *)
(* AudioTrackManager (src/src/routes/Addons/Addons.js, lines 488-1129) is  *)
(* modelled as a state machine whose steps are the macrotasks of the       *)
(* JavaScript event loop: a caller's detectAudioTracks call, the firing of *)
(* a setTimeout callback, a reset() call.  A macrotask runs to completion  *)
(* together with the promise reactions (microtasks) it triggers, so each   *)
(* action covers everything a handler does up to the next point at which   *)
(* it waits for a timer or for the host.                                   *)
(*                                                                         *)
(* Numbers: a confidence is an integer number of hundredths (0.05 = 5).    *)
(* Text: a label is a sequence of one-character strings, so that           *)
(* toLowerCase() and includes() are computed, not assumed.                 *)
(* A JavaScript object is a function from the keys it has to their values: *)
(* a key that is not in DOMAIN is a property that reads as undefined.      *)
(***************************************************************************)
EXTENDS Integers, Sequences, FiniteSets, TLC

(***************************************************************************)
(* Program constants                                                       *)
(***************************************************************************)
\* AUDIO_DETECTION_SETTINGS.maxRetries
maxRetries == 3

(***************************************************************************)
(* Bounds of the model                                                     *)
(***************************************************************************)
\* detectAudioTracks activations that may be waiting on Promise.race at once
MaxCalls == 2
\* setTimeout retry callbacks that may be pending when a caller makes a request
MaxPendingRetries == 1
\* the length of a retry chain is counted up to this value and then saturates
RetryDepthCap == 4

(***************************************************************************)
(* Text                                                                    *)
(***************************************************************************)
UpperCaseLetters ==
  <<"A", "B", "C", "D", "E", "F", "G", "H", "I", "J", "K", "L", "M",
    "N", "O", "P", "Q", "R", "S", "T", "U", "V", "W", "X", "Y", "Z">>

LowerCaseLetters ==
  <<"a", "b", "c", "d", "e", "f", "g", "h", "i", "j", "k", "l", "m",
    "n", "o", "p", "q", "r", "s", "t", "u", "v", "w", "x", "y", "z">>

\* String.prototype.toLowerCase on one character
LowerChar(c) ==
  IF \E i \in 1..Len(UpperCaseLetters) : UpperCaseLetters[i] = c
  THEN LowerCaseLetters[CHOOSE i \in 1..Len(UpperCaseLetters) : UpperCaseLetters[i] = c]
  ELSE c

\* String.prototype.toLowerCase
toLowerCase(s) == [i \in 1..Len(s) |-> LowerChar(s[i])]

\* String.prototype.includes
includes(s, pat) ==
  \E i \in 0..(Len(s) - Len(pat)) : SubSeq(s, i + 1, i + Len(pat)) = pat

LabelFrench51DTS == <<"F", "r", "e", "n", "c", "h", " ", "5", ".", "1", " ", "D", "T", "S">>
LabelKorean == <<"K", "o", "r", "e", "a", "n">>
LabelWebAudio == <<"W", "e", "b", " ", "A", "u", "d", "i", "o", " ", "T", "r", "a", "c", "k">>
LabelAudioTrack == <<"A", "u", "d", "i", "o", " ", "T", "r", "a", "c", "k", " ">>
Digits == <<"1", "2", "3", "4", "5", "6", "7", "8", "9">>

(***************************************************************************)
(* Objects                                                                 *)
(***************************************************************************)
Has(t, k) == k \in DOMAIN t

\* the value of a string property in a truthiness test: undefined and ""
\* are both falsy
StrOf(t, k) == IF Has(t, k) THEN t[k] ELSE ""

\* the value of a numeric property in a truthiness test: undefined and 0
\* are both falsy
NumOf(t, k) == IF Has(t, k) THEN t[k] ELSE 0

\* the value of a text property (a label): undefined and "" are both falsy
TextOf(t, k) == IF Has(t, k) THEN t[k] ELSE <<>>

\* {...a, ...b}
Spread(a, b) ==
  [k \in DOMAIN a \cup DOMAIN b |-> IF k \in DOMAIN b THEN b[k] ELSE a[k]]

\* the key under which a Map holds a track (track.id, possibly undefined)
IdKey(t) == IF Has(t, "id") THEN t["id"] ELSE "undefined"

Min(a, b) == IF a < b THEN a ELSE b
Max(a, b) == IF a > b THEN a ELSE b

\* new Map()
EmptyMap == [k \in {} |-> 0]

\* Map.prototype.set on a map from ids to numbers
MapSet(m, key, v) == [k \in DOMAIN m \cup {key} |-> IF k = key THEN v ELSE m[k]]

(***************************************************************************)
(* Metadata fallback: enhanceTrackInfo, detectCodecInfo, detectLanguage    *)
(***************************************************************************)
\* detectCodecInfo (lines 819-845): a guess from the track label
detectCodecInfo(track) ==
  LET label == toLowerCase(TextOf(track, "label"))
      has51 == TextOf(track, "label") # <<>> /\ includes(label, <<"5", ".", "1">>)
      hasDts == TextOf(track, "label") # <<>> /\ includes(label, <<"d", "t", "s">>)
      hasFlac == TextOf(track, "label") # <<>> /\ includes(label, <<"f", "l", "a", "c">>)
  IN [codec |-> IF hasFlac THEN "FLAC" ELSE IF hasDts THEN "DTS" ELSE "AAC",
      channels |-> IF has51 THEN "5.1" ELSE "Stereo",
      bitrate |-> IF hasFlac THEN 1000 ELSE IF hasDts THEN 768
                  ELSE IF has51 THEN 384 ELSE 192]

\* enhanceTrackInfo (lines 780-812).  The presentation-only properties
\* (kind, enabled, enhanced, quality, accessibility) are left out.
enhanceTrackInfo(track, index) ==
  LET codecInfo == detectCodecInfo(track)
  IN [id |-> IF StrOf(track, "id") # "" THEN track["id"]
             ELSE IF index = 0 THEN "audio-0" ELSE "audio-1",
      label |-> IF TextOf(track, "label") # <<>> THEN track["label"]
                ELSE LabelAudioTrack \o <<Digits[index + 1]>>,
      lang |-> IF StrOf(track, "language") # "" THEN track["language"] ELSE "und",
      codec |-> codecInfo.codec,
      channels |-> codecInfo.channels,
      bitrate |-> codecInfo.bitrate,
      confidence |-> Min(90, 60 + 20),
      method |-> "enhanced-fallback"]

\* the table of detectLanguage (lines 915-936), in its iteration order
languagePatterns ==
  << <<<<"e", "n", "g", "l", "i", "s", "h">>, "eng">>,
     <<<<"e", "n">>, "eng">>,
     <<<<"s", "p", "a", "n", "i", "s", "h">>, "spa">>,
     <<<<"e", "s">>, "spa">>,
     <<<<"f", "r", "e", "n", "c", "h">>, "fra">>,
     <<<<"f", "r">>, "fra">>,
     <<<<"g", "e", "r", "m", "a", "n">>, "deu">>,
     <<<<"d", "e">>, "deu">>,
     <<<<"i", "t", "a", "l", "i", "a", "n">>, "ita">>,
     <<<<"i", "t">>, "ita">>,
     <<<<"p", "o", "r", "t", "u", "g", "u", "e", "s", "e">>, "por">>,
     <<<<"p", "t">>, "por">>,
     <<<<"r", "u", "s", "s", "i", "a", "n">>, "rus">>,
     <<<<"r", "u">>, "rus">>,
     <<<<"c", "h", "i", "n", "e", "s", "e">>, "chi">>,
     <<<<"z", "h">>, "chi">>,
     <<<<"j", "a", "p", "a", "n", "e", "s", "e">>, "jpn">>,
     <<<<"j", "a">>, "jpn">>,
     <<<<"k", "o", "r", "e", "a", "n">>, "kor">>,
     <<<<"k", "o">>, "kor">> >>

\* detectLanguage (lines 913-947): the first pattern the label includes
detectLanguage(track) ==
  LET label == toLowerCase(TextOf(track, "label"))
      hits == {i \in 1..Len(languagePatterns) : includes(label, languagePatterns[i][1])}
  IN IF hits = {} THEN "und"
     ELSE languagePatterns[CHOOSE i \in hits : \A j \in hits : i <= j][2]

(***************************************************************************)
(* Frequency analysis                                                      *)
(***************************************************************************)
\* analyzeFrequencyData (lines 736-772) on the three band energies.
\* highEnergy > midEnergy * 1.5 is compared as 2 * high > 3 * mid.
analyzeFrequencyData(lowEnergy, midEnergy, highEnergy) ==
  [codec |-> IF 2 * highEnergy > 3 * midEnergy THEN "FLAC"
             ELSE IF lowEnergy > midEnergy THEN "MP3" ELSE "AAC",
   bitrate |-> IF 2 * highEnergy > 3 * midEnergy THEN 800 ELSE 192,
   channels |-> IF (IF lowEnergy >= highEnergy THEN lowEnergy - highEnergy
                    ELSE highEnergy - lowEnergy) < 10
                THEN "5.1" ELSE "Stereo"]

\* the candidate detectUsingWebAudio returns (lines 683-692)
WebAudioCandidate(energy) ==
  LET audioProperties == analyzeFrequencyData(energy[1], energy[2], energy[3])
  IN [id |-> "web-audio-1",
      label |-> LabelWebAudio,
      lang |-> "und",
      codec |-> audioProperties.codec,
      channels |-> audioProperties.channels,
      bitrate |-> audioProperties.bitrate,
      confidence |-> 70,
      method |-> "web-audio"]

(***************************************************************************)
(* Scoring and merging                                                     *)
(***************************************************************************)
\* the confidence calculateConfidenceScores computes for one track
\* (lines 955-969), before it is stored
ScoreOf(track) ==
  LET base == IF NumOf(track, "confidence") # 0 THEN track["confidence"] ELSE 50
      raw == base
             + (IF StrOf(track, "codec") \notin {"", "unknown"} THEN 10 ELSE 0)
             + (IF StrOf(track, "channels") \notin {"", "unknown"} THEN 10 ELSE 0)
             + (IF NumOf(track, "bitrate") > 0 THEN 10 ELSE 0)
             + (IF StrOf(track, "lang") \notin {"", "und"} THEN 10 ELSE 0)
             + (IF StrOf(track, "method") = "media-source" THEN 10 ELSE 0)
             + (IF StrOf(track, "method") = "web-audio" THEN 5 ELSE 0)
             - (IF TextOf(track, "label") = <<>> THEN 20 ELSE 0)
             - (IF StrOf(track, "id") = "" THEN 20 ELSE 0)
  IN raw

\* a mutant of ClampConfidence: the clamp is left out
ClampConfidenceNoClamp(confidence) == confidence

\* Math.max(0, Math.min(1, confidence)) (line 969)
ClampConfidence(confidence) == Max(0, Min(100, confidence))

\* calculateConfidenceScores (lines 953-972): every track gets its clamped
\* score, and the score is stored in confidenceScores under the track's id
RECURSIVE calculateConfidenceScores(_, _)
calculateConfidenceScores(tracks, scores) ==
  IF tracks = <<>> THEN [tracks |-> <<>>, scores |-> scores]
  ELSE LET track == Head(tracks)
           confidence == ClampConfidence(ScoreOf(track))
           scored == Spread(track, [confidence |-> confidence])
           rest == calculateConfidenceScores(Tail(tracks),
                                             MapSet(scores, IdKey(track), confidence))
       IN [tracks |-> <<scored>> \o rest.tracks, scores |-> rest.scores]

\* the object stored for an id that is already in the map (lines 994-998)
MergeTrack(existing, track) ==
  Spread(Spread(existing, track),
         [confidence |-> Max(existing["confidence"], track["confidence"])])

\* merged.set(track.id, ...) on a Map kept as the sequence of its values in
\* insertion order
MergedSet(merged, track) ==
  IF \E i \in 1..Len(merged) : IdKey(merged[i]) = IdKey(track)
  THEN LET i == CHOOSE j \in 1..Len(merged) : IdKey(merged[j]) = IdKey(track)
       IN [merged EXCEPT ![i] = track]
  ELSE Append(merged, track)

\* the existing tracks are added first (lines 984-986)
RECURSIVE AddExisting(_, _)
AddExisting(merged, existingTracks) ==
  IF existingTracks = <<>> THEN merged
  ELSE AddExisting(
         MergedSet(merged, Spread(Head(existingTracks),
                                  [confidence |-> 50, method |-> "existing"])),
         Tail(existingTracks))

\* one method's results are merged in (lines 990-1003)
RECURSIVE MergeMethod(_, _)
MergeMethod(merged, methodResults) ==
  IF methodResults = <<>> THEN merged
  ELSE LET track == Head(methodResults)
           hit == {i \in 1..Len(merged) : IdKey(merged[i]) = IdKey(track)}
           next == IF hit # {}
                   THEN MergedSet(merged, MergeTrack(merged[CHOOSE i \in hit : TRUE], track))
                   ELSE MergedSet(merged, track)
       IN MergeMethod(next, Tail(methodResults))

RECURSIVE MergeResults(_, _)
MergeResults(merged, results) ==
  IF results = <<>> THEN merged
  ELSE MergeResults(MergeMethod(merged, Head(results)), Tail(results))

\* mergeDetectionResults (lines 980-1007)
mergeDetectionResults(results, existingTracks) ==
  MergeResults(AddExisting(<<>>, existingTracks), results)

\* validateAndEnhanceTracks (lines 874-906); the timestamp is left out
RECURSIVE validateAndEnhanceTracks(_)
validateAndEnhanceTracks(tracks) ==
  IF tracks = <<>> THEN <<>>
  ELSE LET track == Head(tracks)
           enhanced == Spread(track,
                         [validated |-> TRUE,
                          confidence |-> IF NumOf(track, "confidence") # 0
                                         THEN track["confidence"] ELSE 50])
           withLang == IF StrOf(enhanced, "lang") \in {"", "und"}
                       THEN Spread(enhanced, [lang |-> detectLanguage(track)])
                       ELSE enhanced
       IN IF StrOf(track, "id") = "" \/ TextOf(track, "label") = <<>>
          THEN validateAndEnhanceTracks(Tail(tracks))
          ELSE <<withLang>> \o validateAndEnhanceTracks(Tail(tracks))

(***************************************************************************)
(* AudioTrackManager: state                                                *)
(***************************************************************************)
VARIABLES
  isDetecting,        \* this.isDetecting
  retryCount,         \* this.retryCount
  detectionStatus,    \* this.detectionStatus (the status word of STATUS_INDICATORS)
  detectedTracks,     \* this.detectedTracks
  confidenceScores,   \* this.confidenceScores
  detectionTimeout,   \* this.detectionTimeout: TRUE when it holds a timer, FALSE for null
  timers,             \* the pending 5000 ms setTimeout callbacks, in creation order
  retryTimers,        \* the pending retry callbacks: how many of each chain length
  calls,              \* the detectAudioTracks activations waiting on Promise.race, oldest first
  hostTracks,         \* videoElement.audioTracks of the player's video element
  callerTracks,       \* the existingTracks the caller passes with its requests
  audioContext,       \* whether the constructor obtained an AudioContext (this.audioContext)
  audioDetectionStatus, \* the state the statusChange listener of useEnhancedPlayer keeps
  detectionFailedEvents, \* 'error' events of type DETECTION_FAILED emitted so far (saturating)
  stepEvents,         \* the events emitted by the last macrotask
  lastCall,           \* what the detectAudioTracks call that returned last did
  fnIn,               \* the input of the pure function under check
  fnOut               \* its output

(***************************************************************************)
(* SubtitleManager and its caller: state                                   *)
(***************************************************************************)
VARIABLES
  processingStatus,   \* this.processingStatus (the status word of STATUS_INDICATORS)
  reads,              \* the files whose FileReader has not finished, oldest first
  subtitleEvents,     \* the events the SubtitleManager emitted in the last macrotask
  lastProcess,        \* what the processSubtitleFile call that resolved last returned
  heldCues,           \* the cue list the caller holds: of the last parse or conversion
  parsedCues,         \* the cue list of the last successful parse
  trail,              \* the target formats asked for since that parse
  lastConvert         \* what the convertSubtitles call that returned last did

amVars == <<isDetecting, retryCount, detectionStatus, detectedTracks,
            confidenceScores, detectionTimeout>>
loopVars == <<timers, retryTimers, calls, hostTracks, callerTracks, audioContext>>
seenVars == <<audioDetectionStatus, detectionFailedEvents, stepEvents, lastCall>>
fnVars == <<fnIn, fnOut>>
smVars == <<processingStatus, reads, subtitleEvents, lastProcess,
            heldCues, parsedCues, trail, lastConvert>>
\* the state of the interface around the managers
VARIABLES
  isOnline,           \* NetworkStatus: the isOnline state
  wasOffline,         \* NetworkStatus: the wasOffline state
  showReconnected,    \* NetworkStatus: the showReconnected state
  netTimers,          \* NetworkStatus: seconds left of each pending setTimeout, oldest first
  sinceOnline,        \* seconds since the last 'online' event, capped
  lastNet,            \* what the last step of NetworkStatus was
  isProcessingFile,   \* useEnhancedPlayer: the isProcessingFile state
  toast,              \* ErrorHandler: whether this.toast is set
  errorHistory,       \* ErrorHandler: this.errorHistory, newest first
  shownToasts,        \* the toasts toast.show was given in the last step
  lastError           \* what the last call of the ErrorHandler was given

netVars == <<isOnline, wasOffline, showReconnected, netTimers, sinceOnline, lastNet>>
hookVars == <<isProcessingFile>>
errVars == <<toast, errorHistory, shownToasts, lastError>>
uiVars == <<netVars, hookVars, errVars>>

vars == <<amVars, loopVars, seenVars, fnVars, smVars, uiVars>>

\* no processSubtitleFile call has resolved in this step
NoProcess ==
  [kind |-> "none", file |-> 0, success |-> FALSE, rejected |-> FALSE,
   format |-> "", cueCount |-> 0, valid |-> TRUE, error |-> "", fileName |-> "",
   status |-> "idle", errorEvents |-> 0, parserThrew |-> FALSE,
   errorCountRaised |-> 0]

\* no convertSubtitles call has returned in this step
NoConvert ==
  [kind |-> "none", source |-> "", target |-> "", rejected |-> FALSE,
   message |-> "", passedThrough |-> FALSE, status |-> "idle"]

\* the SubtitleManager after its constructor (lines 8-19), and a caller
\* that holds no cues yet
InitSubtitleManager ==
  /\ processingStatus = "idle"
  /\ reads = <<>>
  /\ subtitleEvents = <<>>
  /\ lastProcess = NoProcess
  /\ heldCues = <<>>
  /\ parsedCues = <<>>
  /\ trail = <<>>
  /\ lastConvert = NoConvert

\* the delay of the setTimeout in handleOnline (README.md, line 533), in seconds
ReconnectDelay == 3

\* NetworkStatus when it is mounted (README.md, lines 521-523); no 'online'
\* event has been seen
InitNetworkStatus(onLine) ==
  /\ isOnline = onLine
  /\ wasOffline = FALSE
  /\ showReconnected = FALSE
  /\ netTimers = <<>>
  /\ sinceOnline = ReconnectDelay + 1
  /\ lastNet = "mount"

\* the interface when it is mounted in a browser that is online
\* the initial state of useEnhancedPlayer
InitHook == isProcessingFile = FALSE

\* no call of the ErrorHandler was made in this step
NoErrorCall == [op |-> "none"]

\* the constructor of ErrorHandler
InitErrorHandler(givenToast) ==
  /\ toast = givenToast
  /\ errorHistory = <<>>
  /\ shownToasts = <<>>
  /\ lastError = NoErrorCall

InitInterface == InitNetworkStatus(TRUE) /\ InitHook /\ InitErrorHandler(TRUE)

Strategies == {"media-source", "web-audio", "fallback"}

\* the manager, its timers and its listeners as one value that the handlers
\* below transform
World ==
  [isDetecting |-> isDetecting, retryCount |-> retryCount,
   detectionStatus |-> detectionStatus, detectedTracks |-> detectedTracks,
   confidenceScores |-> confidenceScores, detectionTimeout |-> detectionTimeout,
   timers |-> timers, retryTimers |-> retryTimers,
   audioDetectionStatus |-> audioDetectionStatus,
   detectionFailedEvents |-> detectionFailedEvents,
   stepEvents |-> <<>>]

Commit(w) ==
  /\ isDetecting' = w.isDetecting
  /\ retryCount' = w.retryCount
  /\ detectionStatus' = w.detectionStatus
  /\ detectedTracks' = w.detectedTracks
  /\ confidenceScores' = w.confidenceScores
  /\ detectionTimeout' = w.detectionTimeout
  /\ timers' = w.timers
  /\ retryTimers' = w.retryTimers
  /\ audioDetectionStatus' = w.audioDetectionStatus
  /\ detectionFailedEvents' = w.detectionFailedEvents
  /\ stepEvents' = w.stepEvents

(***************************************************************************)
(* Events and their listeners                                              *)
(***************************************************************************)
\* emit('statusChange', status): the listener of useEnhancedPlayer stores it
EmitStatusChange(w, status) ==
  [w EXCEPT !.audioDetectionStatus = status,
            !.stepEvents = Append(@, "statusChange")]

\* emit('tracksDetected', tracks)
EmitTracksDetected(w) == [w EXCEPT !.stepEvents = Append(@, "tracksDetected")]

\* emit('error', {type, ...})
EmitError(w, type) ==
  [w EXCEPT !.stepEvents = Append(@, type),
            !.detectionFailedEvents =
               IF type = "DETECTION_FAILED" THEN Min(@ + 1, 2) ELSE @]

\* emit('reset'): nothing listens to it
EmitReset(w) == [w EXCEPT !.stepEvents = Append(@, "reset")]

(***************************************************************************)
(* Timers                                                                  *)
(***************************************************************************)
RECURSIVE Without(_, _)
Without(q, e) ==
  IF q = <<>> THEN <<>>
  ELSE IF Head(q) = e THEN Without(Tail(q), e)
  ELSE <<Head(q)>> \o Without(Tail(q), e)

PendingRetries(rt) ==
  LET RECURSIVE Sum(_)
      Sum(d) == IF d = 0 THEN 0 ELSE rt[d] + Sum(d - 1)
  IN Sum(RetryDepthCap)

(***************************************************************************)
(* AudioTrackManager: handlers                                             *)
(***************************************************************************)
\* cleanupDetection (lines 1050-1074).  this.mediaSource is never assigned
\* and the analyser holds no state of the model.  clearTimeout removes the
\* callback this.detectionTimeout holds: the field is set while isDetecting
\* is true and cleared with it, so at most one such callback is pending.
cleanupDetection(w) ==
  [w EXCEPT !.isDetecting = FALSE,
            !.timers = IF w.detectionTimeout THEN Without(@, "detect") ELSE @,
            !.detectionTimeout = FALSE]

\* handleDetectionTimeout (lines 1012-1019)
handleDetectionTimeout(w) ==
  cleanupDetection(EmitError([w EXCEPT !.detectionStatus = "timeout"], "TIMEOUT"))

\* the test of handleDetectionError (line 1031)
RetryAllowed(w) == w.retryCount < maxRetries

\* handleDetectionError (lines 1025-1045).  depth is the number of retries
\* that led to the failed attempt (0 for a caller's request); the callback
\* scheduled for the next retry carries depth + 1.
handleDetectionError(w, depth) ==
  LET failed == [w EXCEPT !.detectionStatus = "failed"]
      d == Min(depth + 1, RetryDepthCap)
  IN IF RetryAllowed(failed)
     THEN [failed EXCEPT !.retryCount = @ + 1,
                         !.retryTimers = [@ EXCEPT ![d] = @ + 1]]
     ELSE EmitError(failed, "DETECTION_FAILED")

\* reset (lines 1103-1111)
reset(w) ==
  EmitReset([cleanupDetection(w) EXCEPT !.detectedTracks = <<>>,
                                        !.confidenceScores = EmptyMap,
                                        !.retryCount = 0,
                                        !.detectionStatus = "idle"])

(***************************************************************************)
(* The detection strategies                                                *)
(***************************************************************************)
Ok(v) == [ok |-> TRUE, val |-> v]
Thrown == [ok |-> FALSE, val |-> <<>>]

\* an undefined video element (this.lastVideoElement is never assigned)
NoVideo == [present |-> FALSE, audioTracks |-> <<>>]

RECURSIVE EnhanceAll(_, _)
EnhanceAll(tracks, index) ==
  IF tracks = <<>> THEN <<>>
  ELSE <<enhanceTrackInfo(Head(tracks), index)>> \o EnhanceAll(Tail(tracks), index + 1)

RECURSIVE AsFallback(_)
AsFallback(tracks) ==
  IF tracks = <<>> THEN <<>>
  ELSE <<Spread(Head(tracks), [confidence |-> 50, method |-> "fallback"])>>
       \o AsFallback(Tail(tracks))

\* detectUsingFallbackMethods (lines 706-729): reading audioTracks of an
\* undefined video element throws, and nothing in the method catches it
detectUsingFallbackMethods(videoElement, existingTracks) ==
  IF ~videoElement.present THEN Thrown
  ELSE LET enhancedTracks == EnhanceAll(videoElement.audioTracks, 0)
       IN IF enhancedTracks = <<>> /\ existingTracks # <<>>
          THEN Ok(AsFallback(existingTracks))
          ELSE Ok(enhancedTracks)

\* detectUsingMediaSource (lines 617-657) when its promise settles: every
\* path ends in [], for analyzeAudioStream is not a method of the class and
\* the catch block returns [] for every error
detectUsingMediaSource(videoElement) == Ok(<<>>)

\* detectUsingWebAudio (lines 664-698) when its promise settles: [] without
\* an audio context or when createMediaElementSource throws, else the one
\* candidate built from the frequency bands
detectUsingWebAudio(webAudio) ==
  IF webAudio = "fail" THEN Ok(<<>>) ELSE Ok(<<WebAudioCandidate(webAudio)>>)

\* an attempt is described by a: the video element and the existing tracks
\* it was called with, the strategies whose promises do not settle before
\* the timers fire (slow), what the analyser gives (webAudio), and the
\* number of retries that led to it (depth)
AllFailed(a) ==
  /\ ~a.video.present
  /\ "media-source" \notin a.slow
  /\ a.webAudio = "fail"

\* the candidates of the strategies that have completed
Produced(a) ==
  (IF "web-audio" \in a.slow THEN <<>> ELSE detectUsingWebAudio(a.webAudio).val)
  \o (IF "fallback" \in a.slow THEN <<>>
      ELSE detectUsingFallbackMethods(a.video, <<>>).val)

\* the catch block of performMultiMethodDetection (lines 606-609)
PerformCatch(w, a) ==
  [w |-> w, res |-> detectUsingFallbackMethods(a.video, a.existing)]

\* performMultiMethodDetection (lines 582-610) when Promise.all settles
\* before the timeout: with every strategy fulfilled the results are merged
\* and scored, and a rejection goes to the catch block
PerformSettled(w, a) ==
  LET fallback == detectUsingFallbackMethods(a.video, <<>>)
      results == <<detectUsingMediaSource(a.video).val,
                   detectUsingWebAudio(a.webAudio).val,
                   fallback.val>>
      scored == calculateConfidenceScores(
                  mergeDetectionResults(results, a.existing), w.confidenceScores)
  IN IF fallback.ok
     THEN [w |-> [w EXCEPT !.confidenceScores = scored.scores],
           res |-> Ok(scored.tracks)]
     ELSE PerformCatch(w, a)

(***************************************************************************)
(* detectAudioTracks                                                       *)
(***************************************************************************)
\* lines 536-545: the guard is taken, the status is announced and the
\* detection timeout is armed
Enter(w) ==
  [EmitStatusChange([w EXCEPT !.isDetecting = TRUE,
                              !.retryCount = 0,
                              !.detectionStatus = "detecting"],
                    "detecting")
     EXCEPT !.detectionTimeout = TRUE,
            !.timers = Append(@, "detect")]

\* a mutant of CatchDetectionError: the error is thrown on to the caller
CatchDetectionErrorRethrow(w, a) ==
  [w |-> w, returned |-> <<>>, rejected |-> TRUE, errored |-> TRUE]

\* the catch block of detectAudioTracks (lines 568-570)
CatchDetectionError(w, a) ==
  [w |-> handleDetectionError(w, a.depth), returned |-> a.existing,
   rejected |-> FALSE, errored |-> TRUE]

\* a mutant of UpdateStatus: an empty list is a success too
UpdateStatusAlwaysSuccess(w, validatedTracks) ==
  [w |-> EmitTracksDetected([w EXCEPT !.detectionStatus = "success",
                                     !.detectedTracks = validatedTracks]),
   returned |-> validatedTracks, rejected |-> FALSE, errored |-> FALSE]

\* lines 551-566: the outcome is written to the status
UpdateStatus(w, validatedTracks) ==
  IF Len(validatedTracks) > 0
  THEN [w |-> EmitTracksDetected([w EXCEPT !.detectionStatus = "success",
                                          !.detectedTracks = validatedTracks]),
        returned |-> validatedTracks, rejected |-> FALSE, errored |-> FALSE]
  ELSE [w |-> EmitError([w EXCEPT !.detectionStatus = "failed"], "NO_AUDIO_TRACKS"),
        returned |-> validatedTracks, rejected |-> FALSE, errored |-> FALSE]

\* lines 548-573 once performMultiMethodDetection has settled with perf
Complete(a, perf) ==
  LET out == IF perf.res.ok
             THEN UpdateStatus(perf.w, validateAndEnhanceTracks(perf.res.val))
             ELSE CatchDetectionError(perf.w, a)
  IN [out EXCEPT !.w = cleanupDetection(@)]

\* what is seen of a call that returns in this step; before is the world in
\* which lines 548-573 started
Returned(a, before, out, origin, timedOut, byTimer) ==
  [kind |-> "completed",
   origin |-> origin,
   rejected |-> out.rejected,
   errored |-> out.errored,
   returned |-> out.returned,
   status |-> out.w.detectionStatus,
   timedOut |-> timedOut,
   byTimer |-> byTimer,
   slow |-> a.slow,
   produced |-> Produced(a),
   allFailed |-> AllFailed(a),
   depth |-> a.depth,
   retryScheduled |-> PendingRetries(out.w.retryTimers) > PendingRetries(before.retryTimers),
   failedEvent |-> \E i \in 1..Len(out.w.stepEvents) :
                     out.w.stepEvents[i] = "DETECTION_FAILED",
   existing |-> a.existing]

\* the guard of detectAudioTracks (lines 531-534): nothing but the return
Guarded(existingTracks, origin) ==
  [kind |-> "guarded",
   origin |-> origin,
   rejected |-> FALSE,
   errored |-> FALSE,
   returned |-> existingTracks,
   status |-> detectionStatus,
   timedOut |-> FALSE,
   byTimer |-> FALSE,
   slow |-> {},
   produced |-> <<>>,
   allFailed |-> FALSE,
   depth |-> 0,
   retryScheduled |-> FALSE,
   failedEvent |-> FALSE,
   existing |-> existingTracks]

\* a mutant of RejectCall: the guard is tested after the fields are reset
RejectCallAfterReset(w) ==
  EmitStatusChange([w EXCEPT !.retryCount = 0, !.detectionStatus = "detecting"],
                   "detecting")

\* what the guarded return of detectAudioTracks does to the manager
\* (lines 531-534): nothing
RejectCall(w) == w

(***************************************************************************)
(* The environment                                                         *)
(***************************************************************************)
\* a track of videoElement.audioTracks that carries no language tag
HostTrack == [id |-> "1", label |-> LabelFrench51DTS, language |-> ""]

\* a track the caller already holds for the same id
ExistingTrack == [id |-> "1", label |-> LabelFrench51DTS, lang |-> "fra"]

\* the players the manager is run in: one that exposes nothing, one whose
\* video element has no track list while the caller holds a track, and one
\* with a host track for the id the caller holds
Environments ==
  {[hostTracks |-> <<>>, callerTracks |-> <<>>, audioContext |-> FALSE],
   [hostTracks |-> <<>>, callerTracks |-> <<ExistingTrack>>, audioContext |-> TRUE],
   [hostTracks |-> <<HostTrack>>, callerTracks |-> <<ExistingTrack>>, audioContext |-> TRUE]}

\* the band energies (low, mid, high) of an analyser that has just been
\* connected, as getByteFrequencyData gives them
SilentBands == <<0, 0, 0>>

\* what detectUsingWebAudio meets: "fail" without an audio context
\* (lines 665-668) or when createMediaElementSource throws on an undefined
\* video element (lines 694-697), else the band energies
WebAudioOutcome(present) ==
  IF audioContext /\ present THEN SilentBands ELSE "fail"

\* the strategies that have not settled when the timers fire.  The fallback
\* waits for nothing outside the program, the analyser for the audio graph,
\* the media source for the host's sourceopen event: a strategy is taken
\* to be still running only when those that wait for more are.
SlowChoices ==
  {{}, {"media-source"}, {"media-source", "web-audio"}, Strategies}

NoneYet ==
  [kind |-> "none", origin |-> "none", rejected |-> FALSE, errored |-> FALSE,
   returned |-> <<>>, status |-> "idle", timedOut |-> FALSE, byTimer |-> FALSE,
   slow |-> {}, produced |-> <<>>, allFailed |-> FALSE, depth |-> 0,
   retryScheduled |-> FALSE, failedEvent |-> FALSE, existing |-> <<>>]

NoFn == [op |-> "none"]

InitManager ==
  /\ isDetecting = FALSE
  /\ retryCount = 0
  /\ detectionStatus = "idle"
  /\ detectedTracks = <<>>
  /\ confidenceScores = EmptyMap
  /\ detectionTimeout = FALSE
  /\ timers = <<>>
  /\ retryTimers = [d \in 1..RetryDepthCap |-> 0]
  /\ calls = <<>>
  /\ audioDetectionStatus = "idle"
  /\ detectionFailedEvents = 0
  /\ stepEvents = <<>>
  /\ lastCall = NoneYet

Init ==
  /\ InitManager
  /\ \E e \in Environments :
       /\ hostTracks = e.hostTracks
       /\ callerTracks = e.callerTracks
       /\ audioContext = e.audioContext
  /\ fnIn = NoFn
  /\ fnOut = NoFn
  /\ InitSubtitleManager
  /\ InitInterface

(***************************************************************************)
(* Macrotasks                                                              *)
(***************************************************************************)
envVars == <<hostTracks, callerTracks, audioContext, fnVars, smVars, uiVars>>

\* a caller calls detectAudioTracks(videoElement, existingTracks)
Request(present, slow) ==
  LET a == [video |-> IF present THEN [present |-> TRUE, audioTracks |-> hostTracks]
                      ELSE NoVideo,
            existing |-> callerTracks, slow |-> slow,
            webAudio |-> WebAudioOutcome(present), depth |-> 0]
      within == slow = {} \/ ~detectUsingFallbackMethods(a.video, <<>>).ok
  IN /\ ~present => slow \subseteq {"media-source"}
     /\ IF isDetecting
        THEN /\ Commit(RejectCall(World))
             /\ lastCall' = Guarded(callerTracks, "caller")
             /\ UNCHANGED calls
        ELSE IF within
        THEN LET before == Enter(World)
                 out == Complete(a, PerformSettled(before, a))
             IN /\ ~present => PendingRetries(retryTimers) < MaxPendingRetries
                /\ Commit(out.w)
                /\ lastCall' = Returned(a, before, out, "caller", FALSE, FALSE)
                /\ UNCHANGED calls
        ELSE /\ Len(calls) < MaxCalls
             /\ Commit([Enter(World) EXCEPT !.timers = Append(@, "race")])
             /\ calls' = Append(calls, Spread(a, [timedOut |-> FALSE]))
             /\ lastCall' = NoneYet
     /\ UNCHANGED envVars

\* the callback of line 543 runs.  It is the oldest pending callback, so
\* it belongs to the oldest call that waits.
DetectionTimeoutFires ==
  /\ timers # <<>>
  /\ Head(timers) = "detect"
  /\ Commit(handleDetectionTimeout([World EXCEPT !.timers = Tail(@)]))
  /\ calls' = [calls EXCEPT ![1] = [@ EXCEPT !.timedOut = TRUE]]
  /\ lastCall' = NoneYet
  /\ UNCHANGED envVars

\* the callback of line 594 rejects the race of the oldest call that
\* waits: the catch block runs and detectAudioTracks goes on to its end.
\* (The callback of a call that has returned changes nothing and is not
\* kept in timers.)
RaceTimerFires ==
  /\ timers # <<>>
  /\ Head(timers) = "race"
  /\ LET a == Head(calls)
         before == [World EXCEPT !.timers = Tail(@)]
         out == Complete(a, PerformCatch(before, a))
     IN /\ Commit(out.w)
        /\ calls' = Tail(calls)
        /\ lastCall' = Returned(a, before, out, "caller", a.timedOut, TRUE)
  /\ UNCHANGED envVars

\* the callback of line 1035 runs:
\* detectAudioTracks(this.lastVideoElement, this.lastExistingTracks), and
\* neither field is ever assigned
RetryTimerFires(d, mediaSourceHangs) ==
  LET a == [video |-> NoVideo, existing |-> <<>>,
            slow |-> IF mediaSourceHangs THEN {"media-source"} ELSE {},
            webAudio |-> WebAudioOutcome(FALSE), depth |-> d]
      w == [World EXCEPT !.retryTimers = [@ EXCEPT ![d] = @ - 1]]
  IN /\ retryTimers[d] > 0
     /\ IF isDetecting
        THEN /\ Commit(RejectCall(w))
             /\ lastCall' = Guarded(<<>>, "retry")
        ELSE LET before == Enter(w)
                 out == Complete(a, PerformSettled(before, a))
             IN /\ Commit(out.w)
                /\ lastCall' = Returned(a, before, out, "retry", FALSE, FALSE)
     /\ UNCHANGED <<calls, envVars>>

\* a caller calls reset()
Reset ==
  /\ Commit(reset(World))
  /\ lastCall' = NoneYet
  /\ UNCHANGED <<calls, envVars>>

Next ==
  \/ \E present \in BOOLEAN, slow \in SlowChoices : Request(present, slow)
  \/ DetectionTimeoutFires
  \/ RaceTimerFires
  \/ \E d \in 1..RetryDepthCap, mediaSourceHangs \in BOOLEAN :
       RetryTimerFires(d, mediaSourceHangs)
  \/ Reset

Spec == Init /\ [][Next]_vars

(***************************************************************************)
(* Retry policy                                                            *)
(***************************************************************************)
\* C1: a request whose attempts keep failing with an exception is retried
\* at most maxRetries times: no retry callback is ever pending for a fourth
\* retry, and the attempt that fails after maxRetries retries schedules
\* nothing, leaves the status at failed and emits DETECTION_FAILED.
C1_RetriesAreBounded ==
  /\ \A d \in 1..RetryDepthCap : retryTimers[d] > 0 => d <= maxRetries
  /\ (lastCall.kind = "completed" /\ lastCall.errored /\ lastCall.depth >= maxRetries)
       => /\ ~lastCall.retryScheduled
          /\ lastCall.failedEvent
          /\ lastCall.status = "failed"

\* C7: an attempt in which all three strategies failed goes to the retry
\* policy: a retry is scheduled while fewer than maxRetries retries were
\* made, and after that the attempt ends with a DETECTION_FAILED error.
C7_AllFailedEscalates ==
  (lastCall.kind = "completed" /\ lastCall.allFailed)
    => \/ lastCall.retryScheduled /\ lastCall.depth < maxRetries
       \/ ~lastCall.retryScheduled /\ lastCall.failedEvent

(***************************************************************************)
(* The in-progress guard                                                   *)
(***************************************************************************)
\* C2: at most one attempt runs at a time, and isDetecting is true for as
\* long as an attempt runs.
C2_OneAttemptAtATime ==
  /\ Len(calls) <= 1
  /\ calls # <<>> => isDetecting

C5_CompletedResultsAreReturned ==
  (lastCall.kind = "completed" /\ lastCall.byTimer
     /\ lastCall.slow # {} /\ lastCall.slow # Strategies)
    => \A i \in 1..Len(lastCall.produced) :
         \E j \in 1..Len(lastCall.returned) :
           lastCall.returned[j]["id"] = lastCall.produced[i]["id"]

(***************************************************************************)
(* No exception reaches the caller                                         *)
(***************************************************************************)
\* C6: whatever fails (a strategy, the timeout, the video element being
\* undefined), the promise of detectAudioTracks is fulfilled, with the
\* validated tracks or with the existing tracks, and is never rejected.
C6_NeverRejects ==
  lastCall.kind \in {"completed", "guarded"}
    => /\ ~lastCall.rejected
       /\ lastCall.errored =>
            lastCall.returned = (IF lastCall.origin = "caller" THEN callerTracks ELSE <<>>)

\* C6 witness: a call on an undefined video element, whose fallback
\* strategy threw, has returned
C6_Witness ==
  /\ lastCall.kind = "completed"
  /\ lastCall.errored
  /\ lastCall.origin = "caller"
  /\ ~lastCall.rejected

(***************************************************************************)
(* The status events                                                       *)
(***************************************************************************)
\* C8: the listener that follows the statusChange events holds the status
\* getDetectionStatus() returns.
C8_ListenerHoldsStatus == audioDetectionStatus = detectionStatus

(***************************************************************************)
(* Scoring and merging on their own inputs                                 *)
(***************************************************************************)
NoKeys == [k \in {} |-> 0]

\* the candidates calculateConfidenceScores is applied to: every property
\* may be missing, empty, unknown or known, and the incoming confidence may
\* lie outside [0, 1]
ScoreCandidates ==
  {Spread(Spread(Spread(Spread(Spread(Spread(Spread(i, l), g), c), h), b), f), m) :
     i \in {NoKeys, [id |-> ""], [id |-> "1"]},
     l \in {NoKeys, [label |-> <<>>], [label |-> LabelKorean]},
     g \in {NoKeys, [lang |-> "und"], [lang |-> "kor"]},
     c \in {NoKeys, [codec |-> "unknown"], [codec |-> "AAC"]},
     h \in {NoKeys, [channels |-> "unknown"], [channels |-> "5.1"]},
     b \in {NoKeys, [bitrate |-> 0], [bitrate |-> 192]},
     f \in {NoKeys, [confidence |-> -50], [confidence |-> 0], [confidence |-> 70],
            [confidence |-> 100], [confidence |-> 250]},
     m \in {NoKeys, [method |-> "media-source"], [method |-> "web-audio"]}}

\* the candidates of one id that mergeDetectionResults is applied to
MergeCandidates ==
  {[id |-> "1", label |-> l, lang |-> g, codec |-> c, channels |-> h,
    bitrate |-> b, confidence |-> f, method |-> "enhanced-fallback"] :
     l \in {<<>>, LabelKorean}, g \in {"und", "kor"}, c \in {"unknown", "AAC"},
     h \in {"unknown", "5.1"}, b \in {0, 192}, f \in {50, 80}}

\* the candidates of a set that is merged with itself: the ids that are
\* present are distinct, and a candidate may have no id
SelfCandidates ==
  {Spread(i, [label |-> LabelKorean, lang |-> "kor", codec |-> "AAC",
              channels |-> h, bitrate |-> 192, confidence |-> f,
              method |-> "enhanced-fallback"]) :
     i \in {NoKeys, [id |-> "1"], [id |-> "2"]},
     h \in {"unknown", "5.1"}, f \in {30, 80}}

SelfSets ==
  {<<>>}
  \cup {<<t>> : t \in SelfCandidates}
  \cup {a \in SelfCandidates \X SelfCandidates :
          Has(a[1], "id") /\ Has(a[2], "id") => a[1]["id"] # a[2]["id"]}

\* videoElement.audioTracks entries without a language tag
UntaggedHostTracks ==
  {[id |-> i, label |-> l, language |-> ""] :
     i \in {"", "1"}, l \in {LabelFrench51DTS, LabelKorean}}

FnInputs ==
  {[op |-> "score", track |-> t] : t \in ScoreCandidates}
  \cup {[op |-> "merge", existing |-> <<>>, results |-> <<<<t1>>, <<t2>>>>] :
          t1 \in MergeCandidates, t2 \in MergeCandidates}
  \cup {[op |-> "merge", existing |-> <<t1>>, results |-> <<<<t2>>>>] :
          t1 \in MergeCandidates, t2 \in MergeCandidates}
  \cup {[op |-> "self", tracks |-> a] : a \in SelfSets}
  \cup {[op |-> "order", first |-> <<t1>>, second |-> <<t2>>] :
          t1 \in MergeCandidates, t2 \in MergeCandidates}
  \cup {[op |-> "fallback", track |-> t] : t \in UntaggedHostTracks}

InitFn ==
  /\ InitManager
  /\ hostTracks = <<>>
  /\ callerTracks = <<>>
  /\ audioContext = FALSE
  /\ fnIn \in FnInputs
  /\ fnOut = NoFn
  /\ InitSubtitleManager
  /\ InitInterface

\* calculateConfidenceScores is called on the candidate, with an empty map
ApplyScore ==
  /\ fnIn.op = "score"
  /\ fnOut = NoFn
  /\ LET r == calculateConfidenceScores(<<fnIn.track>>, EmptyMap)
     IN fnOut' = [op |-> "score", tracks |-> r.tracks, scores |-> r.scores]
  /\ UNCHANGED <<amVars, loopVars, seenVars, smVars, uiVars, fnIn>>

\* mergeDetectionResults is called on the results and the existing tracks
ApplyMerge ==
  /\ fnIn.op = "merge"
  /\ fnOut = NoFn
  /\ fnOut' = [op |-> "merge",
               merged |-> mergeDetectionResults(fnIn.results, fnIn.existing)]
  /\ UNCHANGED <<amVars, loopVars, seenVars, smVars, uiVars, fnIn>>

\* mergeDetectionResults is called with a candidate set as the existing
\* tracks and as the only result list
ApplySelfMerge ==
  /\ fnIn.op = "self"
  /\ fnOut = NoFn
  /\ fnOut' = [op |-> "self",
               merged |-> mergeDetectionResults(<<fnIn.tracks>>, fnIn.tracks)]
  /\ UNCHANGED <<amVars, loopVars, seenVars, smVars, uiVars, fnIn>>

\* lines 599-602 of performMultiMethodDetection: merge, then score
MergeAndScore(results, existingTracks) ==
  calculateConfidenceScores(mergeDetectionResults(results, existingTracks),
                            EmptyMap).tracks

\* the same two result lists are merged and scored in both orders
ApplyBothOrders ==
  /\ fnIn.op = "order"
  /\ fnOut = NoFn
  /\ fnOut' = [op |-> "order",
               forward |-> MergeAndScore(<<fnIn.first, fnIn.second>>, <<>>),
               backward |-> MergeAndScore(<<fnIn.second, fnIn.first>>, <<>>)]
  /\ UNCHANGED <<amVars, loopVars, seenVars, smVars, uiVars, fnIn>>

\* a detection in which only the metadata fallback contributes: the host
\* track goes through detectUsingFallbackMethods, the merge, the scoring
\* and validateAndEnhanceTracks (lines 548-551, 584-604)
ApplyFallback ==
  /\ fnIn.op = "fallback"
  /\ fnOut = NoFn
  /\ LET video == [present |-> TRUE, audioTracks |-> <<fnIn.track>>]
         results == <<detectUsingMediaSource(video).val,
                      detectUsingWebAudio("fail").val,
                      detectUsingFallbackMethods(video, <<>>).val>>
     IN fnOut' = [op |-> "fallback",
                  tracks |-> validateAndEnhanceTracks(MergeAndScore(results, <<>>))]
  /\ UNCHANGED <<amVars, loopVars, seenVars, smVars, uiVars, fnIn>>

NextFn ==
  \/ ApplyScore
  \/ ApplyMerge
  \/ ApplySelfMerge
  \/ ApplyBothOrders
  \/ ApplyFallback

SpecFn == InitFn /\ [][NextFn]_vars

\* C9: whatever properties a candidate has and whatever its incoming
\* confidence, calculateConfidenceScores leaves a confidence in [0, 1] on
\* the track and in confidenceScores.
C9_ScoreIsClamped ==
  fnOut.op = "score"
    => /\ \A i \in 1..Len(fnOut.tracks) :
            fnOut.tracks[i]["confidence"] >= 0 /\ fnOut.tracks[i]["confidence"] <= 100
       /\ \A k \in DOMAIN fnOut.scores : fnOut.scores[k] >= 0 /\ fnOut.scores[k] <= 100

\* C9 witness: a candidate whose boosts carry it above 1 has been scored
C9_Witness ==
  /\ fnOut.op = "score"
  /\ ScoreOf(fnIn.track) > 100
  /\ fnOut.tracks[1]["confidence"] = 100
  /\ fnOut.scores[IdKey(fnIn.track)] = 100

\* the two candidates of one id as they meet in the map: an existing track
\* is stored with confidence 0.5 and method 'existing' (line 985)
FirstOfPair ==
  IF fnIn.existing # <<>>
  THEN Spread(fnIn.existing[1], [confidence |-> 50, method |-> "existing"])
  ELSE fnIn.results[1][1]

SecondOfPair == fnIn.results[Len(fnIn.results)][1]

KnownText(t, k) == StrOf(t, k) \notin {"", "unknown", "und"}

\* C10: when two candidates share an id, each merged property has the known
\* value when one of the two has it, and the merged confidence is the
\* maximum of the two.
C10_MergePrefersKnown ==
  fnOut.op = "merge"
    => /\ Len(fnOut.merged) = 1
       /\ \A k \in {"lang", "codec", "channels"} :
            (KnownText(FirstOfPair, k) \/ KnownText(SecondOfPair, k))
              => KnownText(fnOut.merged[1], k)
       /\ (NumOf(FirstOfPair, "bitrate") > 0 \/ NumOf(SecondOfPair, "bitrate") > 0)
            => NumOf(fnOut.merged[1], "bitrate") > 0
       /\ (TextOf(FirstOfPair, "label") # <<>> \/ TextOf(SecondOfPair, "label") # <<>>)
            => TextOf(fnOut.merged[1], "label") # <<>>
       /\ fnOut.merged[1]["confidence"]
            = Max(FirstOfPair["confidence"], SecondOfPair["confidence"])

(***************************************************************************)
(* Merging a set with itself, merge order, the metadata fallback           *)
(***************************************************************************)
\* C11: merging a candidate set with itself (existing = A, results = [A])
\* returns as many candidates as A has, and each returned candidate has a
\* confidence at least that of the candidate of A it stands for.
C11_SelfMergeKeepsCardinality ==
  fnOut.op = "self"
    => /\ Len(fnOut.merged) = Len(fnIn.tracks)
       /\ \A i \in 1..Len(fnOut.merged) : \A j \in 1..Len(fnIn.tracks) :
            IdKey(fnOut.merged[i]) = IdKey(fnIn.tracks[j])
              => fnOut.merged[i]["confidence"] >= fnIn.tracks[j]["confidence"]

\* C12: the same result lists merged and scored in either order leave every
\* track id with the same fields and the same confidence.
C12_MergeOrderIndependent ==
  fnOut.op = "order"
    => {fnOut.forward[i] : i \in 1..Len(fnOut.forward)}
         = {fnOut.backward[i] : i \in 1..Len(fnOut.backward)}

\* C20: the metadata fallback on a host track without a language tag takes
\* lang, channels and codec from the label: "French 5.1 DTS" gives fra,
\* 5.1, DTS and a confidence above 0.5, and a label that names Korean gives
\* kor.
C20_LabelDrivesFallback ==
  fnOut.op = "fallback"
    => /\ Len(fnOut.tracks) = 1
       /\ fnIn.track["label"] = LabelFrench51DTS
            => /\ fnOut.tracks[1]["lang"] = "fra"
               /\ fnOut.tracks[1]["channels"] = "5.1"
               /\ fnOut.tracks[1]["codec"] = "DTS"
               /\ fnOut.tracks[1]["confidence"] > 50
       /\ fnIn.track["label"] = LabelKorean => fnOut.tracks[1]["lang"] = "kor"

(***************************************************************************)
(* The order of the returned list                                          *)
(***************************************************************************)
SortedByConfidence(tracks) ==
  \A i \in 1..Len(tracks) : \A j \in 1..Len(tracks) :
    i < j => tracks[i]["confidence"] >= tracks[j]["confidence"]

\* C13: the list a completed detectAudioTracks call returns, which is the
\* list it keeps in detectedTracks and emits with tracksDetected, is in
\* descending order of confidence.
C13_ReturnedByConfidence ==
  (lastCall.kind = "completed" /\ ~lastCall.errored)
    => SortedByConfidence(lastCall.returned)

(***************************************************************************)
(* SubtitleManager: strings and numbers                                    *)
(***************************************************************************)
\* a JavaScript string is a string here, with positions counted from 1.
\* The characters of s from position m to position n, those that exist
Slice(s, m, n) ==
  IF m > n \/ m > Len(s) \/ n < 1 THEN ""
  ELSE SubSeq(s, Max(m, 1), Min(n, Len(s)))

\* the i-th character of s, "" when there is none
CharAt(s, i) == Slice(s, i, i)

IsDigit(c) == c \in {"0", "1", "2", "3", "4", "5", "6", "7", "8", "9"}

\* the characters \s matches and trim() removes
IsSpace(c) == c \in {" ", "\t", "\n", "\r"}

DigitValue(c) == IF c = "0" THEN 0 ELSE CHOOSE d \in 1..9 : Digits[d] = c

\* String.prototype.startsWith
startsWith(s, prefix) == Slice(s, 1, Len(prefix)) = prefix

\* the first position from i on that holds no white space
RECURSIVE SkipSpace(_, _)
SkipSpace(s, i) ==
  IF i <= Len(s) /\ IsSpace(CharAt(s, i)) THEN SkipSpace(s, i + 1) ELSE i

\* the last position up to i that holds no white space
RECURSIVE SkipSpaceBack(_, _)
SkipSpaceBack(s, i) ==
  IF i >= 1 /\ IsSpace(CharAt(s, i)) THEN SkipSpaceBack(s, i - 1) ELSE i

\* String.prototype.trim
trim(s) == Slice(s, SkipSpace(s, 1), SkipSpaceBack(s, Len(s)))

\* the first position from i on at which c stands, or 0
IndexOf(s, c, i) ==
  LET hits == {k \in i..Len(s) : CharAt(s, k) = c}
  IN IF hits = {} THEN 0 ELSE CHOOSE k \in hits : \A j \in hits : k <= j

\* String.prototype.split on a one-character separator
RECURSIVE split(_, _)
split(s, sep) ==
  LET i == IndexOf(s, sep, 1)
  IN IF i = 0 THEN <<s>>
     ELSE <<Slice(s, 1, i - 1)>> \o split(Slice(s, i + 1, Len(s)), sep)

\* Array.prototype.join
RECURSIVE join(_, _)
join(parts, sep) ==
  IF parts = <<>> THEN ""
  ELSE IF Len(parts) = 1 THEN parts[1]
  ELSE parts[1] \o sep \o join(Tail(parts), sep)

\* a JavaScript value that a cue's start, end or id may hold: a number (v;
\* times are kept in milliseconds), NaN, or a string (s)
JsNumber(v) == [t |-> "number", v |-> v, s |-> ""]
JsNaN == [t |-> "NaN", v |-> 0, s |-> ""]
JsString(s) == [t |-> "string", v |-> 0, s |-> s]

\* the value of a run of digits
RECURSIVE DigitsValue(_, _)
DigitsValue(s, acc) ==
  IF s = "" \/ ~IsDigit(CharAt(s, 1)) THEN acc
  ELSE DigitsValue(Slice(s, 2, Len(s)), 10 * acc + DigitValue(CharAt(s, 1)))

\* parseInt on a string: white space is skipped, then the leading digits
\* are read; NaN when there is none
parseInt(str) ==
  LET s == Slice(str, SkipSpace(str, 1), Len(str))
      negative == startsWith(s, "-") /\ Len(s) >= 1
      body == IF negative \/ (startsWith(s, "+") /\ Len(s) >= 1)
              THEN Slice(s, 2, Len(s)) ELSE s
  IN IF body = "" \/ ~IsDigit(CharAt(body, 1)) THEN JsNaN
     ELSE JsNumber((IF negative THEN -1 ELSE 1) * DigitsValue(body, 0))

\* Number.prototype.toString of a natural number
RECURSIVE NatToString(_)
NatToString(n) ==
  LET d == IF n % 10 = 0 THEN "0" ELSE Digits[n % 10]
  IN IF n < 10 THEN d ELSE NatToString(n \div 10) \o d

\* String.prototype.padStart with '0'
RECURSIVE padStart(_, _)
padStart(s, n) == IF Len(s) >= n THEN s ELSE padStart("0" \o s, n)

(***************************************************************************)
(* SubtitleManager: times                                                  *)
(***************************************************************************)
JsUndefined == [t |-> "undefined", v |-> 0, s |-> ""]

\* parts[i] of an array of strings: undefined past its end
ElementAt(parts, i) ==
  IF i >= 1 /\ i <= Len(parts) THEN JsString(parts[i]) ELSE JsUndefined

\* parseInt of parts[i]: parseInt(undefined) is NaN
ParseIntAt(parts, i) ==
  IF i >= 1 /\ i <= Len(parts) THEN parseInt(parts[i]) ELSE JsNaN

\* hours * 3600 + minutes * 60 + seconds + fraction, in milliseconds;
\* fractionMs is the fraction already brought to milliseconds
SecondsOf(hours, minutes, seconds, fractionMs) ==
  IF \E x \in {hours, minutes, seconds, fractionMs} : x.t = "NaN" THEN JsNaN
  ELSE JsNumber(hours.v * 3600000 + minutes.v * 60000 + seconds.v * 1000 + fractionMs.v)

\* parseSRTTime (lines 458-468) on HH:MM:SS,mmm
parseSRTTime(timeStr) ==
  LET parts == split(timeStr, ":")
      secondsParts == split(parts[3], ",")
  IN SecondsOf(parseInt(parts[1]), parseInt(parts[2]),
               parseInt(secondsParts[1]), ParseIntAt(secondsParts, 2))

\* parseVTTTime (lines 475-485) on HH:MM:SS.mmm
parseVTTTime(timeStr) ==
  LET parts == split(timeStr, ":")
      secondsParts == split(parts[3], ".")
  IN SecondsOf(parseInt(parts[1]), parseInt(parts[2]),
               parseInt(secondsParts[1]), ParseIntAt(secondsParts, 2))

\* parseASSTime (lines 522-532) on H:MM:SS.cc: split is called on the
\* argument and on parts[2], and throws a TypeError when either is
\* undefined
parseASSTime(timeStr) ==
  IF timeStr.t = "undefined" THEN Thrown
  ELSE LET parts == split(timeStr.s, ":")
       IN IF Len(parts) < 3 THEN Thrown
          ELSE LET secondsParts == split(parts[3], ".")
                   centiseconds == ParseIntAt(secondsParts, 2)
               IN Ok(SecondsOf(parseInt(parts[1]), parseInt(parts[2]),
                               parseInt(secondsParts[1]),
                               IF centiseconds.t = "NaN" THEN JsNaN
                               ELSE JsNumber(10 * centiseconds.v)))

\* the number an arithmetic operator makes of a cue time: a string that is
\* not a numeral is NaN
ToNumber(time) ==
  IF time.t = "number" THEN time
  ELSE IF time.t = "string" /\ trim(time.s) = "" THEN JsNumber(0)
  ELSE IF time.t = "string"
          /\ \A i \in 1..Len(trim(time.s)) : IsDigit(CharAt(trim(time.s), i))
       THEN JsNumber(1000 * DigitsValue(trim(time.s), 0))
  ELSE JsNaN

\* a % b of JavaScript: the sign of the dividend
JsRem(a, b) == IF a >= 0 THEN a % b ELSE -((-a) % b)

\* Number.prototype.toString of an integer
IntToString(n) == IF n < 0 THEN "-" \o NatToString(-n) ELSE NatToString(n)

\* the four fields both time converters compute (lines 753-756, 767-770),
\* each after toString().padStart(); NaN prints as "NaN".  The time is
\* exact in milliseconds here; in binary floating point
\* Math.floor((time % 1) * 1000) can come out one less.
TimeFields(time) ==
  LET n == ToNumber(time)
  IN IF n.t = "NaN"
     THEN [hours |-> "NaN", minutes |-> "NaN", seconds |-> "NaN", milliseconds |-> "NaN"]
     ELSE [hours |-> padStart(IntToString(n.v \div 3600000), 2),
           minutes |-> padStart(IntToString(JsRem(n.v, 3600000) \div 60000), 2),
           seconds |-> padStart(IntToString(JsRem(n.v, 60000) \div 1000), 2),
           milliseconds |-> padStart(IntToString(JsRem(n.v, 1000)), 3)]

\* convertSRTTimeToVTT (lines 752-759): a string HH:MM:SS.mmm
convertSRTTimeToVTT(time) ==
  LET f == TimeFields(time)
  IN JsString(f.hours \o ":" \o f.minutes \o ":" \o f.seconds \o "." \o f.milliseconds)

\* convertVTTTimeToSRT (lines 766-773): a string HH:MM:SS,mmm
convertVTTTimeToSRT(time) ==
  LET f == TimeFields(time)
  IN JsString(f.hours \o ":" \o f.minutes \o ":" \o f.seconds \o "," \o f.milliseconds)

(***************************************************************************)
(* SubtitleManager: parseSRT                                               *)
(***************************************************************************)
\* \d{2}:\d{2}:\d{2}<sep>\d{3} at position i of s
MatchClock(s, i, sep) ==
  /\ i + 11 <= Len(s)
  /\ \A k \in {0, 1, 3, 4, 6, 7, 9, 10, 11} : IsDigit(CharAt(s, i + k))
  /\ CharAt(s, i + 2) = ":"
  /\ CharAt(s, i + 5) = ":"
  /\ CharAt(s, i + 8) = sep

\* (clock)\s*-->\s*(clock) at position i of s: the two clocks and the
\* position after the match, or no match
TimingAt(s, i, sep) ==
  LET arrow == SkipSpace(s, i + 12)
      second == SkipSpace(s, arrow + 3)
  IN IF MatchClock(s, i, sep) /\ Slice(s, arrow, arrow + 2) = "-->"
        /\ MatchClock(s, second, sep)
     THEN [found |-> TRUE, first |-> Slice(s, i, i + 11),
           second |-> Slice(s, second, second + 11), after |-> second + 12]
     ELSE [found |-> FALSE, first |-> "", second |-> "", after |-> 0]

\* String.prototype.match with that pattern: the leftmost match from i on
FindTiming(s, i, sep) ==
  LET hits == {k \in i..Len(s) : TimingAt(s, k, sep).found}
  IN IF hits = {} THEN TimingAt(s, 0, sep)
     ELSE TimingAt(s, CHOOSE k \in hits : \A j \in hits : k <= j, sep)

\* the last line feed of the white space that follows position i, or 0
LastLineFeedOfRun(s, i) ==
  LET stop == SkipSpace(s, i + 1)
      feeds == {k \in (i + 1)..(stop - 1) : CharAt(s, k) = "\n"}
  IN IF feeds = {} THEN 0 ELSE CHOOSE k \in feeds : \A j \in feeds : j <= k

\* split(/\n\s*\n/): s is cut at every line feed that is followed by white
\* space holding another line feed, and resumes after the last of these
RECURSIVE SplitBlocks(_, _, _)
SplitBlocks(s, from, i) ==
  LET cuts == {k \in i..Len(s) : CharAt(s, k) = "\n" /\ LastLineFeedOfRun(s, k) # 0}
      cut == CHOOSE k \in cuts : \A j \in cuts : k <= j
  IN IF cuts = {} THEN <<Slice(s, from, Len(s))>>
     ELSE <<Slice(s, from, cut - 1)>>
          \o SplitBlocks(s, LastLineFeedOfRun(s, cut) + 1, LastLineFeedOfRun(s, cut) + 1)

\* Array.prototype.slice(n)
SliceFrom(parts, n) == SubSeq(parts, n + 1, Len(parts))

\* the cue parseSRT makes of one block (lines 285-309), none for a block
\* of fewer than three lines or without a timing in its second line
SRTBlockCues(block) ==
  LET lines == split(trim(block), "\n")
      timingMatch == FindTiming(lines[2], 1, ",")
  IN IF Len(lines) >= 3 /\ timingMatch.found
     THEN <<[id |-> parseInt(lines[1]),
             start |-> parseSRTTime(timingMatch.first),
             end |-> parseSRTTime(timingMatch.second),
             text |-> join(SliceFrom(lines, 2), "\n"),
             format |-> "srt",
             originalFormat |-> "srt"]>>
     ELSE <<>>

RECURSIVE SRTCues(_)
SRTCues(blocks) ==
  IF blocks = <<>> THEN <<>>
  ELSE SRTBlockCues(Head(blocks)) \o SRTCues(Tail(blocks))

\* parseSRT (lines 281-311)
parseSRT(content) == SRTCues(SplitBlocks(trim(content), 1, 1))

(***************************************************************************)
(* SubtitleManager: parseVTT, parseASS, parseSUB                           *)
(***************************************************************************)
\* the text lines that follow a timing line (lines 339-343): up to the
\* first line that is empty or holds an arrow; the lines trimmed, and the
\* index of the line that stopped the collection
RECURSIVE CollectText(_, _, _)
CollectText(lines, i, textLines) ==
  IF i <= Len(lines) /\ trim(lines[i]) # "" /\ ~includes(lines[i], "-->")
  THEN CollectText(lines, i + 1, Append(textLines, trim(lines[i])))
  ELSE [textLines |-> textLines, next |-> i]

\* parseVTTStyling (lines 539-553): the flags that are set
parseVTTStyling(textLines) ==
  {f \in {"hasHTML", "hasCSS"} :
     \E k \in 1..Len(textLines) :
       includes(textLines[k], IF f = "hasHTML" THEN "<" ELSE "::cue")}

\* the loop of parseVTT (lines 328-361) from line i on
RECURSIVE VTTCues(_, _)
VTTCues(lines, i) ==
  IF i > Len(lines) THEN <<>>
  ELSE LET line == trim(lines[i])
           timingMatch == FindTiming(line, 1, ".")
           body == CollectText(lines, i + 1, <<>>)
       IN IF includes(line, "-->") /\ timingMatch.found
          THEN (IF Len(body.textLines) > 0
                THEN <<[start |-> parseVTTTime(timingMatch.first),
                        end |-> parseVTTTime(timingMatch.second),
                        text |-> join(body.textLines, "\n"),
                        format |-> "vtt",
                        originalFormat |-> "vtt",
                        styling |-> parseVTTStyling(body.textLines)]>>
                ELSE <<>>)
               \o VTTCues(lines, body.next)
          ELSE VTTCues(lines, i + 1)

\* parseVTT (lines 318-364)
parseVTT(content) ==
  LET lines == split(trim(content), "\n")
  IN VTTCues(lines, IF startsWith(lines[1], "WEBVTT") THEN 2 ELSE 1)

\* the position after the first {...} group of s that starts at i or
\* later and holds at least least characters between its braces, or 0
RECURSIVE TagEnd(_, _, _)
TagEnd(s, i, least) ==
  LET open == IndexOf(s, "{", i)
      close == IndexOf(s, "}", open + 1)
  IN IF open = 0 \/ close = 0 THEN 0
     ELSE IF close - open - 1 >= least THEN close + 1
     ELSE TagEnd(s, open + 1, least)

\* replace(/\{[^}]*\}/g, ''): every {...} group is taken out
RECURSIVE RemoveTags(_)
RemoveTags(s) ==
  LET open == IndexOf(s, "{", 1)
      close == IndexOf(s, "}", open + 1)
  IN IF open = 0 \/ close = 0 THEN s
     ELSE Slice(s, 1, open - 1) \o RemoveTags(Slice(s, close + 1, Len(s)))

\* parseASSStyling (lines 560-571): the flag is set when the line holds a
\* {...} group that is not empty; the tags themselves are not kept here
parseASSStyling(line) ==
  IF TagEnd(line, 1, 1) # 0 THEN {"hasStyling"} ELSE {}

\* parts[i] || ''
ElementOrEmpty(parts, i) == IF i >= 1 /\ i <= Len(parts) THEN parts[i] ELSE ""

\* parseASSDialogue (lines 494-515) on a line that starts with Dialogue:.
\* The fields are taken from fixed positions, the format line is not used;
\* an exception of parseASSTime is not caught.
parseASSDialogue(line, formatLine) ==
  LET rest == Slice(line, SkipSpace(line, Len("Dialogue:") + 1), Len(line))
      parts == split(rest, ",")
      startTime == parseASSTime(ElementAt(parts, 2))
      endTime == parseASSTime(ElementAt(parts, 3))
  IN IF ~startTime.ok \/ ~endTime.ok THEN Thrown
     ELSE Ok([start |-> startTime.val,
              end |-> endTime.val,
              text |-> RemoveTags(join(SliceFrom(parts, 9), ",")),
              actor |-> ElementOrEmpty(parts, 5),
              effect |-> ElementOrEmpty(parts, 6),
              styling |-> parseASSStyling(line)])

\* the loop of parseASS (lines 380-410) from line i on, with the cues
\* pushed so far; an exception of parseASSDialogue ends it
RECURSIVE ASSCues(_, _, _, _, _)
ASSCues(lines, i, inEventsSection, formatLine, subtitles) ==
  IF i > Len(lines) THEN Ok(subtitles)
  ELSE LET trimmedLine == trim(lines[i])
           dialogue == parseASSDialogue(trimmedLine, formatLine)
       IN IF trimmedLine = "[Events]"
          THEN ASSCues(lines, i + 1, TRUE, formatLine, subtitles)
          ELSE IF inEventsSection /\ startsWith(trimmedLine, "Format:")
          THEN ASSCues(lines, i + 1, inEventsSection, trimmedLine, subtitles)
          ELSE IF inEventsSection /\ startsWith(trimmedLine, "Dialogue:")
          THEN IF ~dialogue.ok THEN Thrown
               ELSE ASSCues(lines, i + 1, inEventsSection, formatLine,
                            Append(subtitles,
                                   Spread(dialogue.val,
                                          [format |-> "ass", originalFormat |-> "ass"])))
          ELSE ASSCues(lines, i + 1, inEventsSection, formatLine, subtitles)

\* parseASS (lines 373-413): the cues, or the exception that leaves it
parseASS(content) == ASSCues(split(content, "\n"), 1, FALSE, "", <<>>)

\* the digits of s from position i on, and the position after them
DigitRun(s, i) ==
  LET RECURSIVE Stop(_)
      Stop(k) == IF k <= Len(s) /\ IsDigit(CharAt(s, k)) THEN Stop(k + 1) ELSE k
  IN [text |-> Slice(s, i, Stop(i) - 1), after |-> Stop(i)]

\* /^\{(\d+)\}\{(\d+)\}/ on s: the two frame numbers and the position after
FramesAt(s) ==
  LET first == DigitRun(s, 2)
      second == DigitRun(s, first.after + 2)
  IN IF CharAt(s, 1) = "{" /\ first.text # ""
        /\ Slice(s, first.after, first.after + 1) = "}{"
        /\ second.text # "" /\ CharAt(s, second.after) = "}"
     THEN [found |-> TRUE, first |-> first.text, second |-> second.text,
           after |-> second.after + 1]
     ELSE [found |-> FALSE, first |-> "", second |-> "", after |-> 0]

\* frame / 23.976 (lines 433-436), kept to the millisecond
FrameTime(frame) ==
  IF frame.t = "NaN" THEN JsNaN ELSE JsNumber((frame.v * 1000000) \div 23976)

\* parseSUB (lines 420-452) on the lines of the content
RECURSIVE SUBCues(_)
SUBCues(lines) ==
  IF lines = <<>> THEN <<>>
  ELSE LET trimmedLine == trim(Head(lines))
           match == FramesAt(trimmedLine)
       IN (IF trimmedLine # "" /\ match.found
           THEN <<[start |-> FrameTime(parseInt(match.first)),
                   end |-> FrameTime(parseInt(match.second)),
                   text |-> Slice(trimmedLine, SkipSpace(trimmedLine, match.after),
                                  Len(trimmedLine)),
                   format |-> "sub",
                   originalFormat |-> "sub",
                   startFrame |-> parseInt(match.first),
                   endFrame |-> parseInt(match.second)]>>
           ELSE <<>>)
          \o SUBCues(Tail(lines))

parseSUB(content) == SUBCues(split(content, "\n"))

(***************************************************************************)
(* SubtitleManager: validateSubtitleTiming                                 *)
(***************************************************************************)
\* the code unit of a character that a printed time can hold
CharCode(c) ==
  IF IsDigit(c) THEN 48 + DigitValue(c)
  ELSE IF c = "," THEN 44
  ELSE IF c = "-" THEN 45
  ELSE IF c = "." THEN 46
  ELSE IF c = ":" THEN 58
  ELSE IF c = "N" THEN 78
  ELSE 97

\* a < b on two strings: by code units
RECURSIVE StringLess(_, _)
StringLess(a, b) ==
  IF b = "" THEN FALSE
  ELSE IF a = "" THEN TRUE
  ELSE IF CharAt(a, 1) # CharAt(b, 1) THEN CharCode(CharAt(a, 1)) < CharCode(CharAt(b, 1))
  ELSE StringLess(Slice(a, 2, Len(a)), Slice(b, 2, Len(b)))

\* a < b of JavaScript: two strings are compared as strings, anything else
\* as numbers, and a comparison with NaN is false
JsLess(a, b) ==
  IF a.t = "string" /\ b.t = "string" THEN StringLess(a.s, b.s)
  ELSE /\ ToNumber(a).t = "number"
       /\ ToNumber(b).t = "number"
       /\ ToNumber(a).v < ToNumber(b).v

\* a <= b of JavaScript
JsLessOrEqual(a, b) ==
  IF a.t = "string" /\ b.t = "string" THEN ~StringLess(b.s, a.s)
  ELSE /\ ToNumber(a).t = "number"
       /\ ToNumber(b).t = "number"
       /\ ToNumber(a).v <= ToNumber(b).v

\* a - b of JavaScript
JsMinus(a, b) ==
  IF ToNumber(a).t = "NaN" \/ ToNumber(b).t = "NaN" THEN JsNaN
  ELSE JsNumber(ToNumber(a).v - ToNumber(b).v)

\* what one turn of the loop of validateSubtitleTiming (lines 582-612)
\* pushes for subtitles[i] (i counted from 1)
TimingErrors(subtitles, i) ==
  LET subtitle == subtitles[i]
  IN (IF JsLess(subtitle.start, JsNumber(0)) \/ JsLess(subtitle.end, JsNumber(0))
      THEN <<[kind |-> "negative", subtitle |-> i]>> ELSE <<>>)
     \o (IF JsLessOrEqual(subtitle.end, subtitle.start)
         THEN <<[kind |-> "end before start", subtitle |-> i]>> ELSE <<>>)

TimingWarnings(subtitles, i) ==
  LET subtitle == subtitles[i]
      duration == JsMinus(subtitle.end, subtitle.start)
  IN (IF i > 1 /\ JsLess(subtitle.start, subtitles[i - 1].end)
      THEN <<[kind |-> "overlapping", subtitle |-> i]>> ELSE <<>>)
     \o (IF JsLess(duration, JsNumber(500))
         THEN <<[kind |-> "very short", subtitle |-> i]>> ELSE <<>>)
     \o (IF JsLess(JsNumber(10000), duration)
         THEN <<[kind |-> "very long", subtitle |-> i]>> ELSE <<>>)

RECURSIVE CollectFindings(_, _, _)
CollectFindings(subtitles, i, errors) ==
  IF i > Len(subtitles) THEN <<>>
  ELSE (IF errors THEN TimingErrors(subtitles, i) ELSE TimingWarnings(subtitles, i))
       \o CollectFindings(subtitles, i + 1, errors)

\* a mutant of validateSubtitleTiming: a warning makes the list invalid too
validateSubtitleTimingStrict(subtitles) ==
  [valid |-> CollectFindings(subtitles, 1, TRUE) = <<>>
             /\ CollectFindings(subtitles, 1, FALSE) = <<>>,
   errors |-> CollectFindings(subtitles, 1, TRUE),
   warnings |-> CollectFindings(subtitles, 1, FALSE)]

\* validateSubtitleTiming (lines 578-620)
validateSubtitleTiming(subtitles) ==
  [valid |-> CollectFindings(subtitles, 1, TRUE) = <<>>,
   errors |-> CollectFindings(subtitles, 1, TRUE),
   warnings |-> CollectFindings(subtitles, 1, FALSE)]

(***************************************************************************)
(* SubtitleManager: the file, format detection                             *)
(***************************************************************************)
\* PERFORMANCE_SETTINGS.formatConversion.maxFileSize: 50 * 1024 * 1024
maxFileSize == 52428800

\* String.prototype.toLowerCase on a string
RECURSIVE LowerString(_)
LowerString(s) ==
  IF Len(s) <= 1 THEN LowerChar(s)
  ELSE LowerString(Slice(s, 1, Len(s) \div 2))
       \o LowerString(Slice(s, Len(s) \div 2 + 1, Len(s)))

\* whether s holds pattern when the case of the letters of s is ignored;
\* pattern is in lower case
IncludesIgnoringCase(s, pattern) ==
  \E i \in 0..(Len(s) - Len(pattern)) :
    \A k \in 1..Len(pattern) : LowerChar(CharAt(s, i + k)) = CharAt(pattern, k)

\* String.prototype.lastIndexOf, counted from 1; 0 when c is not in s
LastIndexOf(s, c, i) ==
  LET hits == {k \in 1..i : CharAt(s, k) = c}
  IN IF hits = {} THEN 0 ELSE CHOOSE k \in hits : \A j \in hits : j <= k

\* validateSubtitleFile (lines 119-130); substring(-1) is the whole name
validateSubtitleFile(file) ==
  LET name == LowerString(file.name)
      fileExtension == Slice(name, LastIndexOf(name, ".", Len(name)), Len(name))
  IN IF file.size > maxFileSize THEN FALSE
     ELSE fileExtension \in {".srt", ".vtt", ".ass", ".ssa", ".sub"}

\* the positions at which a line of the content starts
LineStarts(content) ==
  {i \in 1..Len(content) : i = 1 \/ CharAt(content, i - 1) = "\n"}

\* detectSRTFormat (lines 225-229): a line of digits, white space that ends
\* with a line feed, and a timing right after it
detectSRTFormat(content) ==
  \E i \in LineStarts(content) :
    LET number == DigitRun(content, i)
        timing == SkipSpace(content, number.after)
    IN /\ number.text # ""
       /\ timing > number.after
       /\ CharAt(content, timing - 1) = "\n"
       /\ TimingAt(content, timing, ",").found

\* detectVTTFormat (lines 236-239)
detectVTTFormat(content) == startsWith(trim(content), "WEBVTT")

\* detectASSFormat (lines 246-249): the patterns ignore case
detectASSFormat(content) ==
  \/ IncludesIgnoringCase(content, "[script info]")
  \/ IncludesIgnoringCase(content, "[v4+ styles]")

\* detectSUBFormat (lines 256-260)
detectSUBFormat(content) ==
  \E i \in LineStarts(content) : FramesAt(Slice(content, i, Len(content))).found

\* detectSubtitleFormat (lines 206-218): the detectors in the order in
\* which they were registered (lines 27-31); "" stands for null
detectSubtitleFormat(content) ==
  IF detectSRTFormat(content) THEN "srt"
  ELSE IF detectVTTFormat(content) THEN "vtt"
  ELSE IF detectASSFormat(content) THEN "ass"
  ELSE IF detectSUBFormat(content) THEN "sub"
  ELSE ""

\* parseSubtitles (lines 268-275) with the parsers registered in lines
\* 34-38: the cues, or the exception of the parser
parseSubtitles(content, format) ==
  IF format = "srt" THEN Ok(parseSRT(content))
  ELSE IF format = "vtt" THEN Ok(parseVTT(content))
  ELSE IF format \in {"ass", "ssa"} THEN parseASS(content)
  ELSE IF format = "sub" THEN Ok(parseSUB(content))
  ELSE Thrown

(***************************************************************************)
(* SubtitleManager: the converters                                         *)
(***************************************************************************)
\* Array.prototype.map with the index, counted from 0
MapCues(subtitles, F(_, _)) == [i \in 1..Len(subtitles) |-> F(subtitles[i], i - 1)]

\* convertSRTtoVTT (lines 689-696)
convertSRTtoVTT(srtSubtitles) ==
  LET F(subtitle, index) ==
        Spread(subtitle, [format |-> "vtt",
                          start |-> convertSRTTimeToVTT(subtitle.start),
                          end |-> convertSRTTimeToVTT(subtitle.end)])
  IN MapCues(srtSubtitles, F)

\* convertVTTtoSRT (lines 703-711)
convertVTTtoSRT(vttSubtitles) ==
  LET F(subtitle, index) ==
        Spread(subtitle, [format |-> "srt",
                          id |-> JsNumber(index + 1),
                          start |-> convertVTTTimeToSRT(subtitle.start),
                          end |-> convertVTTTimeToSRT(subtitle.end)])
  IN MapCues(vttSubtitles, F)

\* convertASStoSRT (lines 718-727)
convertASStoSRT(assSubtitles) ==
  LET F(subtitle, index) ==
        [id |-> JsNumber(index + 1), start |-> subtitle.start, end |-> subtitle.end,
         text |-> subtitle.text, format |-> "srt", originalFormat |-> "ass"]
  IN MapCues(assSubtitles, F)

\* convertSRTtoASS (lines 734-745)
convertSRTtoASS(srtSubtitles) ==
  LET F(subtitle, index) ==
        [start |-> subtitle.start, end |-> subtitle.end, text |-> subtitle.text,
         format |-> "ass", originalFormat |-> "srt", actor |-> "", effect |-> "",
         styling |-> {}]
  IN MapCues(srtSubtitles, F)

\* the keys of this.converters (lines 41-44)
ConverterKeys == {<<"srt", "vtt">>, <<"vtt", "srt">>, <<"ass", "srt">>, <<"srt", "ass">>}

\* the converter registered under a key
Converter(key, subtitles) ==
  IF key = <<"srt", "vtt">> THEN convertSRTtoVTT(subtitles)
  ELSE IF key = <<"vtt", "srt">> THEN convertVTTtoSRT(subtitles)
  ELSE IF key = <<"ass", "srt">> THEN convertASStoSRT(subtitles)
  ELSE convertSRTtoASS(subtitles)

(***************************************************************************)
(* SubtitleManager: processSubtitleFile and convertSubtitles               *)
(***************************************************************************)
\* the manager as one value that the methods below transform
SubtitleWorld == [processingStatus |-> processingStatus, subtitleEvents |-> <<>>]

\* updateStatus (lines 779-782)
updateStatus(w, status) ==
  [w EXCEPT !.processingStatus = status,
            !.subtitleEvents = Append(@, "statusChange")]

\* emit('error', {type: 'SUBTITLE_PROCESSING_ERROR', ...})
EmitSubtitleError(w) == [w EXCEPT !.subtitleEvents = Append(@, "error")]

\* applyEnhancedStyling (lines 627-637); the timestamp is left out
applyEnhancedStyling(subtitles) ==
  LET F(subtitle, index) ==
        Spread(subtitle,
               [enhanced |-> TRUE,
                styling |-> (IF Has(subtitle, "styling") THEN subtitle.styling ELSE {})
                            \cup {"enhanced"}])
  IN MapCues(subtitles, F)

\* calculateDuration (lines 644-653), in milliseconds
calculateDuration(subtitles) ==
  LET startTimes == {ToNumber(subtitles[i].start).v :
                       i \in {k \in 1..Len(subtitles) : ToNumber(subtitles[k].start).t = "number"}}
      endTimes == {ToNumber(subtitles[i].end).v :
                     i \in {k \in 1..Len(subtitles) : ToNumber(subtitles[k].end).t = "number"}}
  IN IF startTimes = {} \/ endTimes = {} THEN 0
     ELSE (CHOOSE x \in endTimes : \A y \in endTimes : y <= x)
          - (CHOOSE x \in startTimes : \A y \in startTimes : x <= y)

\* a mutant of the catch block: the status is left as it was
ProcessCatchKeepStatus(w, file, message, parserThrew) ==
  [w |-> EmitSubtitleError(w),
   result |-> [success |-> FALSE, format |-> "", subtitles |-> <<>>, cueCount |-> 0,
               duration |-> 0, valid |-> TRUE, error |-> message,
               fileName |-> file.name, parserThrew |-> parserThrew]]

\* the catch block of processSubtitleFile (lines 98-111)
ProcessCatch(w, file, message, parserThrew) ==
  [w |-> EmitSubtitleError(updateStatus(w, "error")),
   result |-> [success |-> FALSE, format |-> "", subtitles |-> <<>>, cueCount |-> 0,
               duration |-> 0, valid |-> TRUE, error |-> message,
               fileName |-> file.name, parserThrew |-> parserThrew]]

\* the files a user may submit.  wellFormed is the number of well-formed
\* units (blocks, cues, Dialogue lines, lines) the content holds.
Files ==
  << [name |-> "movie.srt", size |-> 120, readable |-> TRUE, wellFormed |-> 2,
      content |-> "1\n00:00:01,000 --> 00:00:02,500\nHello\nworld\n\n2\nno timing here\nlost\n\n3\n00:01:00,001 --> 00:01:01,000\nBye\n"],
     [name |-> "movie.vtt", size |-> 110, readable |-> TRUE, wellFormed |-> 2,
      content |-> "WEBVTT\n\n00:00:01.000 --> 00:00:02.500\n<b>Hello</b>\n\n00:00:03 --> 00:00:04\nlost\n\n00:00:05.000 --> 00:00:06.000\nBye\n"],
     [name |-> "movie.ass", size |-> 200, readable |-> TRUE, wellFormed |-> 2,
      content |-> "[Script Info]\nTitle: movie\n\n[Events]\nFormat: Layer, Start, End, Style, Name, MarginL, MarginR, MarginV, Effect, Text\nDialogue: 0,0:00:01.00,0:00:02.50,Default,Bob,0,0,0,,{b1}Hello, you\nDialogue: 0,0:00:03.00,0:00:04.00,Default,,0,0,0,,Bye\n"],
     [name |-> "styles.ass", size |-> 60, readable |-> TRUE, wellFormed |-> 0,
      content |-> "[Script Info]\nTitle: movie\n\n[V4+ Styles]\nStyle: Default,Arial\n"],
     [name |-> "short.ass", size |-> 90, readable |-> TRUE, wellFormed |-> 1,
      content |-> "[Script Info]\n[Events]\nDialogue: 0,0:00:01.00,0:00:02.50,Default,Bob,0,0,0,,Hello\nDialogue: 0\n"],
     [name |-> "movie.sub", size |-> 40, readable |-> TRUE, wellFormed |-> 1,
      content |-> "{24}{48}Hello\n{x}{y}lost\n"],
     [name |-> "notes.txt", size |-> 20, readable |-> TRUE, wellFormed |-> 0,
      content |-> "hello"],
     [name |-> "huge.srt", size |-> maxFileSize + 1, readable |-> TRUE, wellFormed |-> 0,
      content |-> ""],
     [name |-> "broken.srt", size |-> 50, readable |-> FALSE, wellFormed |-> 0,
      content |-> ""],
     [name |-> "plain.srt", size |-> 12, readable |-> TRUE, wellFormed |-> 0,
      content |-> "hello there\n"] >>

\* lines 74-96 of processSubtitleFile on the cues a parser gave: validation,
\* styling and the fields of the result
ReadResult(format, subtitles) ==
  [format |-> format, ok |-> TRUE,
   subtitles |-> applyEnhancedStyling(subtitles),
   cueCount |-> Len(subtitles),
   duration |-> calculateDuration(subtitles),
   valid |-> validateSubtitleTiming(subtitles).valid]

\* lines 71-96 of processSubtitleFile on a content of a known format
ReadParsed(content, format) ==
  IF format = "" THEN {[format |-> "", ok |-> TRUE]}
  ELSE {IF parsed.ok THEN ReadResult(format, parsed.val)
        ELSE [format |-> format, ok |-> FALSE] :
          parsed \in {parseSubtitles(content, format)}}

\* lines 64-96 of processSubtitleFile on the content of a file: detection,
\* parsing, validation, styling; no field of the manager is read
ReadOutcome(file) ==
  CHOOSE read \in UNION {ReadParsed(file.content, format) :
                           format \in {detectSubtitleFormat(file.content)}} : TRUE

\* ReadOutcome of each of the files, computed once
ReadOutcomes == [f \in 1..Len(Files) |-> ReadOutcome(Files[f])]

\* processSubtitleFile from the end of readFileContent on (lines 61-96): the
\* reader has failed (onerror) or has given the content, which the decoding
\* of lines 136-198 leaves as it is, and read is what lines 64-96 make of it
ProcessOutcome(w, file, read) ==
  IF ~file.readable THEN ProcessCatch(w, file, "Failed to read file", FALSE)
  ELSE IF read.format = ""
  THEN ProcessCatch(w, file, "Unable to detect subtitle format", FALSE)
  ELSE IF ~read.ok
  THEN ProcessCatch(w, file, "Cannot read properties of undefined (reading 'split')", TRUE)
  ELSE [w |-> updateStatus(w, "success"),
        result |-> [success |-> TRUE, format |-> read.format,
                    subtitles |-> read.subtitles,
                    cueCount |-> read.cueCount,
                    duration |-> read.duration,
                    valid |-> read.valid, error |-> "",
                    fileName |-> file.name, parserThrew |-> FALSE]]

\* ProcessOutcome for the f-th file
ProcessRead(w, f) ==
  CHOOSE out \in {ProcessOutcome(w, Files[f], read) : read \in {ReadOutcomes[f]}} : TRUE

\* what is seen of a processSubtitleFile call that resolves in this step
\* the subtitle manager's 'error' listener of useEnhancedPlayer: each 'error'
\* event of the step adds one to performanceMetrics.errorCount
ErrorListenerRaises(events) ==
  Cardinality({i \in 1..Len(events) : events[i] = "error"})

\* what uploadSubtitleFile does with the result it awaited: a result without
\* success adds one to performanceMetrics.errorCount
UploadBranchRaises(result) == IF result.success THEN 0 ELSE 1

Processed(f, out) ==
  [kind |-> "done", file |-> f, success |-> out.result.success, rejected |-> FALSE,
   format |-> out.result.format, cueCount |-> out.result.cueCount,
   valid |-> out.result.valid, error |-> out.result.error,
   fileName |-> out.result.fileName, status |-> out.w.processingStatus,
   errorEvents |-> Cardinality({i \in 1..Len(out.w.subtitleEvents) :
                                 out.w.subtitleEvents[i] = "error"}),
   parserThrew |-> out.result.parserThrew,
   errorCountRaised |-> ErrorListenerRaises(out.w.subtitleEvents) +
                        UploadBranchRaises(out.result)]

\* SubtitleManager.convertSubtitles (lines 661-682): the converted cues, or
\* the error it throws after setting the status
convertSubtitles(w, subtitles, targetFormat) ==
  LET converting == updateStatus(w, "converting")
      sourceFormat == IF Len(subtitles) > 0 /\ StrOf(subtitles[1], "format") # ""
                      THEN subtitles[1].format ELSE "unknown"
  IN IF <<sourceFormat, targetFormat>> \in ConverterKeys
     THEN [w |-> updateStatus(converting, "success"), ok |-> TRUE,
           val |-> Converter(<<sourceFormat, targetFormat>>, subtitles), message |-> ""]
     ELSE [w |-> updateStatus(converting, "error"), ok |-> FALSE, val |-> <<>>,
           message |-> "Subtitle conversion failed: No converter available for "
                       \o sourceFormat \o "-" \o targetFormat]

\* convertSubtitles of useEnhancedPlayer (part_001, lines 362-373): the
\* error of the manager is logged and the cues are returned as they came
HookConvert(w, subtitles, targetFormat) ==
  LET out == convertSubtitles(w, subtitles, targetFormat)
  IN [w |-> out.w, returned |-> IF out.ok THEN out.val ELSE subtitles,
      rejected |-> FALSE, message |-> "", managerThrew |-> ~out.ok]

(***************************************************************************)
(* Subtitle files, and the steps of the SubtitleManager                    *)
(***************************************************************************)
\* processSubtitleFile calls whose file is being read at one time
MaxReads == 2
\* conversions asked for after one parse
MaxConversions == 2

TargetFormats == {"srt", "vtt", "ass"}

CommitSubtitle(w) ==
  /\ processingStatus' = w.processingStatus
  /\ subtitleEvents' = w.subtitleEvents

\* the pending calls are kept in the order of their files, since any of
\* them may be the next to finish: q with f put at its place
InsertRead(q, f) ==
  LET before == Cardinality({i \in 1..Len(q) : q[i] <= f})
  IN SubSeq(q, 1, before) \o <<f>> \o SubSeq(q, before + 1, Len(q))

\* the sequence without its k-th element
RemoveAt(q, k) == SubSeq(q, 1, k - 1) \o SubSeq(q, k + 1, Len(q))

\* a caller uploads a file through uploadSubtitleFile of the hook, which sets
\* isProcessingFile and calls processSubtitleFile(file): the status is set, the
\* file is validated, and a valid file is handed to a FileReader; an invalid
\* one ends the call in this step
ProcessSubtitleFile(f) ==
  /\ Len(reads) < MaxReads
  /\ LET w == updateStatus(SubtitleWorld, "parsing")
         out == ProcessCatch(w, Files[f], "Invalid subtitle format", FALSE)
     IN IF validateSubtitleFile(Files[f])
        THEN /\ CommitSubtitle(w)
             /\ reads' = InsertRead(reads, f)
             /\ lastProcess' = NoProcess
             /\ isProcessingFile' = TRUE
        ELSE /\ CommitSubtitle(out.w)
             /\ reads' = reads
             /\ lastProcess' = Processed(f, out)
             /\ isProcessingFile' = FALSE
  /\ lastConvert' = NoConvert
  /\ UNCHANGED <<heldCues, parsedCues, trail>>
  /\ UNCHANGED <<amVars, loopVars, seenVars, fnVars, netVars, errVars>>

\* the FileReader of the k-th pending call fires onload or onerror, and the
\* call runs to its end; the caller keeps the cues of a successful result
FileReaderDone(k) ==
  /\ k \in 1..Len(reads)
  /\ \E out \in {ProcessRead(SubtitleWorld, reads[k])} :
        /\ CommitSubtitle(out.w)
        /\ lastProcess' = Processed(reads[k], out)
        /\ IF out.result.success
           THEN /\ heldCues' = out.result.subtitles
                /\ parsedCues' = out.result.subtitles
                /\ trail' = <<>>
           ELSE UNCHANGED <<heldCues, parsedCues, trail>>
  /\ reads' = RemoveAt(reads, k)
  /\ isProcessingFile' = FALSE
  /\ lastConvert' = NoConvert
  /\ UNCHANGED <<amVars, loopVars, seenVars, fnVars, netVars, errVars>>

\* the caller asks the hook to convert the cues it holds
ConvertSubtitles(targetFormat) ==
  /\ Len(trail) < MaxConversions
  /\ \E out \in {HookConvert(SubtitleWorld, heldCues, targetFormat)} :
        /\ CommitSubtitle(out.w)
        /\ heldCues' = out.returned
        /\ lastConvert' =
             [kind |-> "done",
              source |-> IF Len(heldCues) > 0 THEN heldCues[1].format ELSE "unknown",
              target |-> targetFormat, rejected |-> out.rejected,
              message |-> out.message,
              passedThrough |-> out.managerThrew /\ out.returned = heldCues,
              status |-> out.w.processingStatus]
  /\ trail' = Append(trail, targetFormat)
  /\ lastProcess' = NoProcess
  /\ UNCHANGED <<reads, parsedCues>>
  /\ UNCHANGED <<amVars, loopVars, seenVars, fnVars, uiVars>>

InitSub ==
  /\ InitManager
  /\ hostTracks = <<>>
  /\ callerTracks = <<>>
  /\ audioContext = FALSE
  /\ fnIn = NoFn
  /\ fnOut = NoFn
  /\ InitSubtitleManager
  /\ InitInterface

NextSub ==
  \/ \E f \in 1..Len(Files) : ProcessSubtitleFile(f)
  \/ \E k \in 1..MaxReads : FileReaderDone(k)
  \/ \E targetFormat \in TargetFormats : ConvertSubtitles(targetFormat)

SpecSub == InitSub /\ [][NextSub]_vars

(***************************************************************************)
(* Claims about the SubtitleManager                                        *)
(***************************************************************************)
\* a start or end as a time in milliseconds: a number as it is, an SRT clock
\* string as parseSRTTime reads it
TimeValue(time) == IF time.t = "string" THEN parseSRTTime(time.s) ELSE time

WithinOneMs(a, b) ==
  /\ TimeValue(a).t = "number"
  /\ TimeValue(b).t = "number"
  /\ TimeValue(a).v - TimeValue(b).v \in {-1, 0, 1}

\* the cues parsed from an SRT file have been converted to VTT and back
RoundTripDone ==
  /\ Len(parsedCues) > 0
  /\ parsedCues[1].format = "srt"
  /\ trail = <<"vtt", "srt">>

\* C14: cues parsed from SRT, converted to VTT and then back to SRT, have
\* the start and end they had within one millisecond, and the same text.
C14_SrtVttSrtRoundTrip ==
  RoundTripDone =>
    /\ Len(heldCues) = Len(parsedCues)
    /\ \A i \in 1..Len(parsedCues) :
         /\ WithinOneMs(heldCues[i].start, parsedCues[i].start)
         /\ WithinOneMs(heldCues[i].end, parsedCues[i].end)
         /\ heldCues[i].text = parsedCues[i].text

\* C15: a conversion asked for a pair that has no converter comes back to
\* the caller as an error whose message names the pair, and the caller is
\* not handed the cues it passed in as the result of the conversion.
C15_UnsupportedPairIsReported ==
  (lastConvert.kind = "done"
   /\ <<lastConvert.source, lastConvert.target>> \notin ConverterKeys) =>
    /\ lastConvert.rejected
    /\ includes(lastConvert.message, lastConvert.source \o "-" \o lastConvert.target)
    /\ ~lastConvert.passedThrough

\* the call that ends in this step got as far as running a parser on the
\* content of its file
ParserRan ==
  /\ lastProcess.kind = "done"
  /\ validateSubtitleFile(Files[lastProcess.file])
  /\ Files[lastProcess.file].readable
  /\ detectSubtitleFormat(Files[lastProcess.file].content) # ""

\* C16: a parser leaves a malformed unit out and goes on: it throws no
\* exception, and returns one cue for each well-formed unit of the content.
C16_MalformedUnitIsSkipped ==
  ParserRan =>
    /\ ~lastProcess.parserThrew
    /\ lastProcess.success
    /\ lastProcess.cueCount = Files[lastProcess.file].wellFormed

\* C17: a file from which no cue is parsed makes processSubtitleFile report
\* a failure with an error; it never reports a success with cueCount 0.
C17_NoCueIsAFailure ==
  (lastProcess.kind = "done" /\ lastProcess.cueCount = 0) =>
    /\ ~lastProcess.success
    /\ lastProcess.error # ""

\* C18: a processSubtitleFile call that finishes resolves; it resolves
\* either with a success, the status at SUCCESS and no 'error' event, or
\* with {success: false, error, fileName}, the status at ERROR and exactly
\* one 'error' event; the status is not PARSING when the call has finished.
C18_ProcessResolvesOneOfTwo ==
  lastProcess.kind = "done" =>
    /\ ~lastProcess.rejected
    /\ processingStatus = lastProcess.status
    /\ lastProcess.status # "parsing"
    /\ IF lastProcess.success
       THEN /\ lastProcess.status = "success"
            /\ lastProcess.errorEvents = 0
            /\ "error" \notin {subtitleEvents[i] : i \in 1..Len(subtitleEvents)}
       ELSE /\ lastProcess.error # ""
            /\ lastProcess.fileName = Files[lastProcess.file].name
            /\ lastProcess.status = "error"
            /\ lastProcess.errorEvents = 1

\* a call fails after its file was read, while another call is still
\* waiting for its file
C18_Witness ==
  /\ lastProcess.kind = "done"
  /\ ~lastProcess.success
  /\ Files[lastProcess.file].readable
  /\ validateSubtitleFile(Files[lastProcess.file])
  /\ lastProcess.errorEvents = 1
  /\ Len(reads) > 0

(***************************************************************************)
(* validateSubtitleTiming on lists of cues                                 *)
(***************************************************************************)
\* the longest list of cues that is validated
MaxCues == 2

\* starts and ends in milliseconds, and the NaN parseASSTime gives for a
\* field that is not a number
CueTimes == {JsNumber(-1000), JsNumber(0), JsNumber(1000), JsNumber(1200),
             JsNumber(20000), JsNaN}

TimedCues == {[start |-> a, end |-> b, text |-> "Hello", format |-> "ass"] :
                a \in CueTimes, b \in CueTimes}

TimingInputs ==
  {[op |-> "validate", subtitles |-> q] :
     q \in UNION {[1..n -> TimedCues] : n \in 1..MaxCues}}

InitTiming ==
  /\ InitManager
  /\ hostTracks = <<>>
  /\ callerTracks = <<>>
  /\ audioContext = FALSE
  /\ fnIn \in TimingInputs
  /\ fnOut = NoFn
  /\ InitSubtitleManager
  /\ InitInterface

\* validateSubtitleTiming is called on the list
ApplyValidate ==
  /\ fnIn.op = "validate"
  /\ fnOut = NoFn
  /\ LET validationResult == validateSubtitleTiming(fnIn.subtitles)
     IN fnOut' = [op |-> "validate", valid |-> validationResult.valid,
                  errors |-> Len(validationResult.errors),
                  warnings |-> Len(validationResult.warnings)]
  /\ UNCHANGED <<amVars, loopVars, seenVars, smVars, uiVars, fnIn>>

NextTiming == ApplyValidate

SpecTiming == InitTiming /\ [][NextTiming]_vars

\* the cue starts or ends before 0, or does not end after it starts
BadTiming(cue) ==
  \/ cue.start.t = "number" /\ cue.start.v < 0
  \/ cue.end.t = "number" /\ cue.end.v < 0
  \/ cue.start.t = "number" /\ cue.end.t = "number" /\ cue.end.v <= cue.start.v

\* C19: validateSubtitleTiming answers valid = false, with at least one
\* error, exactly when some cue has start < 0, end < 0 or end <= start;
\* overlaps, short and long durations are warnings and leave valid true.
C19_InvalidExactlyOnBadTiming ==
  fnOut.op = "validate" =>
    /\ ~fnOut.valid <=> \E i \in 1..Len(fnIn.subtitles) : BadTiming(fnIn.subtitles[i])
    /\ ~fnOut.valid <=> fnOut.errors >= 1

\* a list with a short first cue and a second cue that ends before it
\* starts: one finding of each kind
C19_Witness ==
  /\ fnOut.op = "validate"
  /\ Len(fnIn.subtitles) = 2
  /\ ~BadTiming(fnIn.subtitles[1])
  /\ BadTiming(fnIn.subtitles[2])
  /\ ~fnOut.valid
  /\ fnOut.errors >= 1
  /\ fnOut.warnings >= 1

(***************************************************************************)
(* Conversions into SRT                                                    *)
(***************************************************************************)
\* the conversion that ends in this step went into SRT through one of the
\* converters
ConvertedIntoSRT ==
  /\ lastConvert.kind = "done"
  /\ lastConvert.target = "srt"
  /\ <<lastConvert.source, lastConvert.target>> \in ConverterKeys

\* the cue has none of the fields styling, actor, effect
PlainCue(cue) == ~Has(cue, "styling") /\ ~Has(cue, "actor") /\ ~Has(cue, "effect")

\* C21: every conversion into SRT that has a converter, from ASS and from
\* VTT, returns cues that carry no styling, no actor and no effect.
C21_IntoSRTDropsMetadata ==
  ConvertedIntoSRT => \A i \in 1..Len(heldCues) : PlainCue(heldCues[i])

(***************************************************************************)
(* Calls that overlap                                                      *)
(***************************************************************************)
\* C22: calls that overlap on one manager write no field that another call
\* in progress reads or writes, so the status reported for a call is the one
\* it has when it runs alone: while a processSubtitleFile call waits for its
\* file the status is the PARSING that this call set.
C22_PendingCallKeepsItsStatus ==
  Len(reads) > 0 => processingStatus = "parsing"

(***************************************************************************)
(* NetworkStatus (README.md, lines 511-571)                                *)
(***************************************************************************)
\* the timeouts that are pending at one time
MaxNetTimers == 3

\* handleOnline (lines 526-535), with the wasOffline of the last render
HandleOnline ==
  /\ ~isOnline
  /\ wasOffline => Len(netTimers) < MaxNetTimers
  /\ isOnline' = TRUE
  /\ IF wasOffline
     THEN /\ showReconnected' = TRUE
          /\ netTimers' = Append(netTimers, ReconnectDelay)
     ELSE UNCHANGED <<showReconnected, netTimers>>
  /\ sinceOnline' = 0
  /\ lastNet' = "online"
  /\ UNCHANGED wasOffline
  /\ UNCHANGED <<amVars, loopVars, seenVars, fnVars, smVars, hookVars, errVars>>

\* handleOffline (lines 537-541)
HandleOffline ==
  /\ isOnline
  /\ isOnline' = FALSE
  /\ wasOffline' = TRUE
  /\ showReconnected' = FALSE
  /\ lastNet' = "offline"
  /\ UNCHANGED <<netTimers, sinceOnline>>
  /\ UNCHANGED <<amVars, loopVars, seenVars, fnVars, smVars, hookVars, errVars>>

\* the callback of the oldest setTimeout runs (lines 530-533)
ReconnectTimerFires ==
  /\ Len(netTimers) > 0
  /\ netTimers[1] = 0
  /\ showReconnected' = FALSE
  /\ wasOffline' = FALSE
  /\ netTimers' = Tail(netTimers)
  /\ lastNet' = "timer"
  /\ UNCHANGED <<isOnline, sinceOnline>>
  /\ UNCHANGED <<amVars, loopVars, seenVars, fnVars, smVars, hookVars, errVars>>

\* a second passes with no event; a timeout that is due runs first
NetTick ==
  /\ \A i \in 1..Len(netTimers) : netTimers[i] > 0
  /\ netTimers' = [i \in 1..Len(netTimers) |-> netTimers[i] - 1]
  /\ sinceOnline' = IF sinceOnline > ReconnectDelay THEN sinceOnline ELSE sinceOnline + 1
  /\ lastNet' = "tick"
  /\ UNCHANGED <<isOnline, wasOffline, showReconnected>>
  /\ UNCHANGED <<amVars, loopVars, seenVars, fnVars, smVars, hookVars, errVars>>

InitNet ==
  /\ InitManager
  /\ hostTracks = <<>>
  /\ callerTracks = <<>>
  /\ audioContext = FALSE
  /\ fnIn = NoFn
  /\ fnOut = NoFn
  /\ InitSubtitleManager
  /\ \E onLine \in BOOLEAN : InitNetworkStatus(onLine)
  /\ InitHook
  /\ InitErrorHandler(TRUE)

NextNet ==
  \/ HandleOnline
  \/ HandleOffline
  \/ ReconnectTimerFires
  \/ NetTick

SpecNet == InitNet /\ [][NextNet]_vars

\* what NetworkStatus renders (lines 551-568)
Rendered ==
  IF isOnline /\ ~showReconnected THEN "nothing"
  ELSE IF isOnline THEN "reconnected" ELSE "offline"

\* C23: each transition from offline to online shows the reconnection
\* message, the message stays for 3 seconds after that reconnection and is
\* dismissed then, and the offline banner is shown as long as the browser
\* is offline.
C23_ReconnectionMessage ==
  /\ lastNet = "online" => Rendered = "reconnected"
  /\ (isOnline /\ sinceOnline < ReconnectDelay) => Rendered = "reconnected"
  /\ Rendered = "reconnected" => sinceOnline <= ReconnectDelay
  /\ ~isOnline <=> Rendered = "offline"

(***************************************************************************)
(* Success and the detected tracks                                         *)
(***************************************************************************)
\* C24: whenever the status is success, detectedTracks is not empty; an
\* attempt that ends without an exception sets success when it has at least
\* one validated track and failed when it has none.
C24_SuccessHasTracks ==
  /\ detectionStatus = "success" => Len(detectedTracks) > 0
  /\ (lastCall.kind = "completed" /\ ~lastCall.errored) =>
       /\ Len(lastCall.returned) > 0 => lastCall.status = "success"
       /\ Len(lastCall.returned) = 0 => lastCall.status = "failed"

\* an attempt has ended with no validated track
C24_Witness ==
  /\ lastCall.kind = "completed"
  /\ ~lastCall.errored
  /\ Len(lastCall.returned) = 0
  /\ detectionStatus = "failed"

(***************************************************************************)
(* The confidence of the frequency analysis                                *)
(***************************************************************************)
\* C25: in the list that detection returns, every track of method
\* 'web-audio' has a confidence of at most 0.7.
C25_WebAudioCappedAtSeventy ==
  lastCall.kind = "completed" =>
    \A i \in 1..Len(lastCall.returned) :
      StrOf(lastCall.returned[i], "method") = "web-audio"
        => NumOf(lastCall.returned[i], "confidence") <= 70

(***************************************************************************)
(* parseASS on Format: lines of several orders                             *)
(***************************************************************************)
\* the places of a Dialogue line that hold Start, End, Name and Effect in
\* the usual order of the fields: Layer, Start, End, Style, Name, MarginL,
\* MarginR, MarginV, Effect, Text
TimedSlots == <<2, 3, 5, 9>>

\* the orders of Start, End, Name and Effect over these places; the first
\* is the usual one
FieldOrders ==
  {p \in [1..4 -> 1..4] : \A i \in 1..4 : \A j \in 1..4 : p[i] = p[j] => i = j}

\* the ten entries of a line in which the k-th of <<Start, End, Name,
\* Effect>> stands at the place TimedSlots[order[k]]
OrderedLine(order, timed, others) ==
  [n \in 1..10 |->
     IF \E k \in 1..4 : TimedSlots[order[k]] = n
     THEN timed[CHOOSE k \in 1..4 : TimedSlots[order[k]] = n]
     ELSE others[n]]

AssContent(order, actor, effect) ==
  "[Script Info]\n[Events]\nFormat: "
  \o join(OrderedLine(order, <<"Start", "End", "Name", "Effect">>,
                      <<"Layer", "", "", "Style", "", "MarginL", "MarginR",
                        "MarginV", "", "Text">>), ", ")
  \o "\nDialogue: "
  \o join(OrderedLine(order, <<"0:00:01.00", "0:00:02.50", actor, effect>>,
                      <<"0", "", "", "Default", "", "10", "20", "30", "",
                        "Hello, you">>), ",")
  \o "\n"

AssInputs ==
  {[op |-> "ass", order |-> order, actor |-> actor, effect |-> effect] :
     order \in FieldOrders, actor \in {"", "Bob"}, effect \in {"", "fade"}}

InitAss ==
  /\ InitManager
  /\ hostTracks = <<>>
  /\ callerTracks = <<>>
  /\ audioContext = FALSE
  /\ fnIn \in AssInputs
  /\ fnOut = NoFn
  /\ InitSubtitleManager
  /\ InitInterface

\* parseASS is called on the content
ApplyParseASS ==
  /\ fnIn.op = "ass"
  /\ fnOut = NoFn
  /\ \E parsed \in {parseASS(AssContent(fnIn.order, fnIn.actor, fnIn.effect))} :
       fnOut' = [op |-> "ass", ok |-> parsed.ok, subtitles |-> parsed.val]
  /\ UNCHANGED <<amVars, loopVars, seenVars, smVars, uiVars, fnIn>>

NextAss == ApplyParseASS

SpecAss == InitAss /\ [][NextAss]_vars

\* C26: whatever the order of the fields in the Format: line, the cue of a
\* Dialogue line has the start, end, actor, effect and text that stand at
\* the places the Format: line gives to Start, End, Name, Effect and Text.
C26_FieldsFollowFormatLine ==
  fnOut.op = "ass" =>
    /\ fnOut.ok
    /\ Len(fnOut.subtitles) = 1
    /\ fnOut.subtitles[1].start = JsNumber(1000)
    /\ fnOut.subtitles[1].end = JsNumber(2500)
    /\ fnOut.subtitles[1].actor = fnIn.actor
    /\ fnOut.subtitles[1].effect = fnIn.effect
    /\ fnOut.subtitles[1].text = "Hello, you"

(***************************************************************************)
(* After reset                                                             *)
(***************************************************************************)
\* the step is a call of detectAudioTracks by a caller
CallerRequests == \E present \in BOOLEAN, slow \in SlowChoices : Request(present, slow)

\* the events of the step that a listener of statusChange, tracksDetected
\* or error receives
HeardEvents == {i \in 1..Len(stepEvents) : stepEvents[i] # "reset"}

\* C27: the status is idle only after construction and after reset().
\* From then on, until a caller calls detectAudioTracks, the status stays
\* idle, detectedTracks stays empty and no statusChange, tracksDetected or
\* error event is emitted, whatever timer or attempt was pending.
C27_QuiescentAfterReset ==
  [][(detectionStatus = "idle" /\ ~CallerRequests)
       => (detectionStatus' = "idle" /\ detectedTracks' = <<>> /\ HeardEvents' = {})]_vars

(***************************************************************************)
(* What a retry runs on                                                    *)
(***************************************************************************)
\* C28: an attempt that a retry timer starts runs with the existing-track
\* list (and the video element) of the caller's request whose attempt
\* failed.
C28_RetryKeepsArguments ==
  (lastCall.kind = "completed" /\ lastCall.origin = "retry")
    => lastCall.existing = callerTracks

\* ---------------------------------------------------------------------------
\* C29: when an uploadSubtitleFile call ends, isProcessingFile is false, and a
\* failed call has raised performanceMetrics.errorCount by exactly one
C29_FailedUploadCountsOnce ==
  lastProcess.kind = "done" =>
    /\ isProcessingFile = FALSE
    /\ (~lastProcess.success => lastProcess.errorCountRaised = 1)

\* ---------------------------------------------------------------------------
\* ErrorHandler (src/common/ErrorHandler/ErrorHandler.js, the class of lines
\* 108-236) and mapErrorToCode (ErrorCodes). An entry of ERROR_CODES is kept
\* by its key, code, severity and recoverable flag; its title and message are
\* fixed texts of the key.
MaxErrors == 2
maxHistorySize == 50

ErrorCode(key, code, severity, recoverable) ==
  [null |-> FALSE, key |-> key, code |-> code, severity |-> severity,
   recoverable |-> recoverable]

ERROR_CODES ==
  [NETWORK_ERROR         |-> ErrorCode("NETWORK_ERROR", 1000, "error", TRUE),
   CONNECTION_TIMEOUT    |-> ErrorCode("CONNECTION_TIMEOUT", 1001, "error", TRUE),
   OFFLINE               |-> ErrorCode("OFFLINE", 1002, "warning", TRUE),
   AUTH_FAILED           |-> ErrorCode("AUTH_FAILED", 2000, "error", TRUE),
   SESSION_EXPIRED       |-> ErrorCode("SESSION_EXPIRED", 2001, "warning", TRUE),
   ADDON_INSTALL_FAILED  |-> ErrorCode("ADDON_INSTALL_FAILED", 3000, "error", TRUE),
   ADDON_LOAD_FAILED     |-> ErrorCode("ADDON_LOAD_FAILED", 3001, "error", TRUE),
   STREAM_NOT_FOUND      |-> ErrorCode("STREAM_NOT_FOUND", 4000, "error", TRUE),
   STREAM_LOAD_FAILED    |-> ErrorCode("STREAM_LOAD_FAILED", 4001, "error", TRUE),
   TORRENT_PARSE_FAILED  |-> ErrorCode("TORRENT_PARSE_FAILED", 4002, "error", TRUE),
   LIBRARY_SYNC_FAILED   |-> ErrorCode("LIBRARY_SYNC_FAILED", 5000, "warning", TRUE),
   STORAGE_FULL          |-> ErrorCode("STORAGE_FULL", 6000, "warning", TRUE),
   STORAGE_ACCESS_DENIED |-> ErrorCode("STORAGE_ACCESS_DENIED", 6001, "error", FALSE),
   UNKNOWN_ERROR         |-> ErrorCode("UNKNOWN_ERROR", 9000, "error", TRUE)]

\* the null that mapErrorToCode and handle return for an error they drop
NullInfo ==
  [null |-> TRUE, key |-> "", code |-> 0, severity |-> "", recoverable |-> FALSE]

\* a falsy error argument
NoErrorGiven == [given |-> FALSE, type |-> "", code |-> 0, message |-> ""]

\* String(error.message || error.toString?.() || '').toLowerCase() is searched
\* with includes: an object without a message gives '[object Object]'
ErrorMessage(error) ==
  IF error.message # "" THEN error.message ELSE "[object Object]"

MessageIncludes(error, word) == IncludesIgnoringCase(ErrorMessage(error), word)

mapErrorToCode(error, onLine) ==
  IF ~error.given THEN ERROR_CODES.UNKNOWN_ERROR
  ELSE IF ~onLine THEN ERROR_CODES.OFFLINE
  ELSE IF MessageIncludes(error, "network") \/ MessageIncludes(error, "fetch")
       THEN ERROR_CODES.NETWORK_ERROR
  ELSE IF MessageIncludes(error, "timeout") THEN ERROR_CODES.CONNECTION_TIMEOUT
  ELSE IF error.type = "Other" /\ (error.code = 3 \/ error.code = 4) THEN NullInfo
  ELSE IF error.code = 2 THEN ERROR_CODES.STREAM_LOAD_FAILED
  ELSE IF MessageIncludes(error, "auth") \/ MessageIncludes(error, "unauthorized")
       THEN ERROR_CODES.AUTH_FAILED
  ELSE IF MessageIncludes(error, "quota") \/ MessageIncludes(error, "storage")
       THEN ERROR_CODES.STORAGE_FULL
  ELSE ERROR_CODES.UNKNOWN_ERROR

\* this.errorHistory.unshift(errorEntry), and pop() beyond maxHistorySize
StoreInHistory(history, entry) ==
  LET grown == <<entry>> \o history
  IN IF Len(grown) > maxHistorySize THEN SubSeq(grown, 1, Len(grown) - 1) ELSE grown

\* handle(error, context): what it returns and the history it leaves. Nothing
\* in its try block throws on the errors of ErrorInputs.
handle(history, error, onLine) ==
  LET errorInfo == mapErrorToCode(error, onLine)
  IN IF errorInfo.null
     THEN [entry |-> NullInfo, history |-> history]
     ELSE [entry |-> errorInfo, history |-> StoreInHistory(history, errorInfo)]

\* the toast of the catch block of showToast
FallbackToast ==
  [type |-> "error", title |-> "An error occurred", timeout |-> 4000,
   errorCode |-> 0, action |-> FALSE]

\* the toastConfig showToast builds from an entry
ToastConfig(errorEntry, options) ==
  [type |-> IF errorEntry.severity = "warning" THEN "alert" ELSE "error",
   title |-> errorEntry.key,
   timeout |-> IF options.timeout # 0 THEN options.timeout
               ELSE IF errorEntry.recoverable THEN 6000 ELSE 8000,
   errorCode |-> errorEntry.code,
   action |-> errorEntry.recoverable /\ options.onRetry]

\* showToast(error, context, options): reading errorEntry.severity of a null
\* entry throws a TypeError, which the catch block answers with the fallback
\* toast; every toast is shown only when this.toast is set
showToast(history, hasToast, error, onLine, options) ==
  LET handled == handle(history, error, onLine)
  IN [history |-> handled.history,
      returned |-> handled.entry,
      threw |-> handled.entry.null,
      shown |-> IF ~hasToast THEN <<>>
                ELSE IF handled.entry.null THEN <<FallbackToast>>
                ELSE <<ToastConfig(handled.entry, options)>>]

ErrorMessages ==
  {"", "Network request failed", "Failed to fetch", "Connection timeout",
   "Unauthorized", "Storage quota exceeded", "Addon manifest is missing"}

ErrorInputs ==
  {NoErrorGiven} \cup
  {[given |-> TRUE, type |-> t, code |-> c, message |-> m] :
     t \in {"Other", "Transport"}, c \in {1, 2, 3, 4}, m \in ErrorMessages}

ToastOptions ==
  {[timeout |-> 0, onRetry |-> FALSE], [timeout |-> 6000, onRetry |-> TRUE]}

\* a caller hands an error to errorHandler.showToast
ShowToast(error, onLine, options) ==
  /\ Len(errorHistory) < MaxErrors
  /\ \E out \in {showToast(errorHistory, toast, error, onLine, options)} :
        /\ errorHistory' = out.history
        /\ shownToasts' = out.shown
        /\ lastError' = [op |-> "showToast", error |-> error, onLine |-> onLine,
                         stored |-> Len(out.history) - Len(errorHistory),
                         threw |-> out.threw]
  /\ toast' = toast
  /\ UNCHANGED <<amVars, loopVars, seenVars, fnVars, smVars, netVars, hookVars>>

\* a caller hands an error to errorHandler.handle
Handle(error, onLine) ==
  /\ Len(errorHistory) < MaxErrors
  /\ \E out \in {handle(errorHistory, error, onLine)} :
        /\ errorHistory' = out.history
        /\ lastError' = [op |-> "handle", error |-> error, onLine |-> onLine,
                         stored |-> Len(out.history) - Len(errorHistory),
                         threw |-> FALSE]
  /\ shownToasts' = <<>>
  /\ toast' = toast
  /\ UNCHANGED <<amVars, loopVars, seenVars, fnVars, smVars, netVars, hookVars>>

\* clearHistory()
ClearHistory ==
  /\ errorHistory # <<>>
  /\ errorHistory' = <<>>
  /\ shownToasts' = <<>>
  /\ lastError' = [op |-> "clearHistory", error |-> NoErrorGiven, onLine |-> TRUE,
                   stored |-> 0, threw |-> FALSE]
  /\ toast' = toast
  /\ UNCHANGED <<amVars, loopVars, seenVars, fnVars, smVars, netVars, hookVars>>

InitErr ==
  /\ InitManager
  /\ hostTracks = <<>>
  /\ callerTracks = <<>>
  /\ audioContext = FALSE
  /\ fnIn = NoFn
  /\ fnOut = NoFn
  /\ InitSubtitleManager
  /\ InitNetworkStatus(TRUE)
  /\ InitHook
  /\ \E givenToast \in BOOLEAN : InitErrorHandler(givenToast)

NextErr ==
  \/ \E error \in ErrorInputs, onLine \in BOOLEAN, options \in ToastOptions :
        ShowToast(error, onLine, options)
  \/ \E error \in ErrorInputs, onLine \in BOOLEAN : Handle(error, onLine)
  \/ ClearHistory

SpecErr == InitErr /\ [][NextErr]_vars

\* the errors C30 speaks of: type 'Other' with code 3 or 4, while online, with
\* no network, fetch or timeout wording in the message
NonCriticalAddonError(error, onLine) ==
  /\ error.given
  /\ onLine
  /\ error.type = "Other"
  /\ error.code \in {3, 4}
  /\ ~MessageIncludes(error, "network")
  /\ ~MessageIncludes(error, "fetch")
  /\ ~MessageIncludes(error, "timeout")

\* C30: showToast on a non-critical addon error shows no toast at all and adds
\* nothing to the error history
C30_NonCriticalShowsNothing ==
  (lastError.op = "showToast" /\ NonCriticalAddonError(lastError.error, lastError.onLine))
    => (shownToasts = <<>> /\ lastError.stored = 0)

====
